---- MODULE Spec2Model ----
(***************************************************************************)
(* A model of the snarkOS node core:                                       *)
(*   - the peer manager `Peers` and the per-connection actor `Peer`        *)
(*     (src/src/network/peers.rs),                                         *)
(*   - the ledger state exercised by src/ledger/src/state/tests.rs,        *)
(*   - the RPC facade (src/src/rpc/rpc_impl.rs).                           *)
(*                                                                         *)
(* The peer manager serialises every mutation through `Peers::update`;     *)
(* each request handler is one atomic action.  Requests produced by the    *)
(* peer actors and by Heartbeat travel through the FIFO `peers_router`;    *)
(* requests whose producers are outside peers.rs (accept loop, ledger,     *)
(* timer) are handed to `update` directly with inputs drawn from small     *)
(* sets.  Time is a whole number of seconds (`as_secs()`).                 *)
(***************************************************************************)
EXTENDS Integers, Sequences, FiniteSets, TLC

VARIABLES
    env,                         \* the Environment E the node is built with
    now,                         \* the clock, in whole seconds
    connected_peers,             \* Peers.connected_peers: addr -> [nonce, chan]
    candidate_peers,             \* Peers.candidate_peers
    restricted_peers,            \* Peers.restricted_peers: addr -> Instant
    seen_inbound_connections,    \* lookup addr -> [port, attempts, last_seen]
    seen_outbound_blocks,        \* addr -> (block hash -> SystemTime)
    seen_outbound_connections,   \* addr -> SystemTime
    seen_outbound_transactions,  \* addr -> (transaction id -> SystemTime)
    peers_router,                \* the manager's request queue (actor/heartbeat producers)
    actors,                      \* the spawned Peer tasks, by task id
    outbound,                    \* the per-peer outbound channel of each task
    placed,                      \* history: last gossip placement per (peer, kind, item)
    remote,                      \* the counterparty of the connection, where it is followed
    chain,                       \* LedgerState: canonical blocks by height (1-based seq)
    block_heights,               \* LedgerState index: block hash -> height
    ledger_tree,                 \* LedgerState: the leaves of the ledger Merkle tree
    latest_block,                \* LedgerState: the tip block
    latest_block_locators,       \* LedgerState: locators of the tip
    ledger_last,                 \* history: the ledger call just made and its result
    ledger_router,               \* the ledger's request queue, as the RPC server fills it
    rpc_last                     \* history: the RPC call just made and its result

peerVars == <<now, connected_peers, candidate_peers, restricted_peers,
              seen_inbound_connections, seen_outbound_blocks, seen_outbound_connections,
              seen_outbound_transactions, peers_router, actors, outbound, placed,
              remote>>
ledgerVars == <<chain, block_heights, ledger_tree, latest_block, latest_block_locators,
                ledger_last>>
rpcVars == <<ledger_router, rpc_last>>
vars == <<env, peerVars, ledgerVars, rpcVars>>

---------------------------------------------------------------------------
(* Bounds of the model. *)
MaxTime == 2
MaxActors == 2
MaxRouter == 1
MaxAttempts == 3
MaxOutbound == 1

(* Environment constants (E::...), scaled to the model.  The peer budget and
   the radio silence are those each specification's initial state gives the
   node. *)
MAXIMUM_NUMBER_OF_PEERS == env.MAXIMUM_NUMBER_OF_PEERS
MINIMUM_NUMBER_OF_PEERS ==
    IF "MINIMUM_NUMBER_OF_PEERS" \in DOMAIN env THEN env.MINIMUM_NUMBER_OF_PEERS ELSE 1
(* The capacity the manager's channel is created with. *)
ROUTER_CAPACITY ==
    IF "ROUTER_CAPACITY" \in DOMAIN env THEN env.ROUTER_CAPACITY ELSE MaxRouter
MAXIMUM_CANDIDATE_PEERS == 4
MAXIMUM_CONNECTION_FAILURES == 1
RADIO_SILENCE_IN_SECS == env.RADIO_SILENCE_IN_SECS
MESSAGE_VERSION == 1
NODE_TYPE == "Client"
UNIX_EPOCH == -1000
U16_MAX == 65535
CHALLENGE_HEIGHT == 0
FLOOD_WINDOW_IN_SECS == 5
BLOCK_FLOOD_LIMIT == 5
TRANSACTION_FLOOD_LIMIT == 500

(* Addresses are <<ip, port>>; ip 0 is unspecified, ip 1 is loopback. *)
Ip(addr) == addr[1]
Port(addr) == addr[2]
is_unspecified(ip) == ip = 0
is_loopback(ip) == ip = 1

local_ip == <<0, 1>>
local_nonce == 0
SyncAddr == <<2, 1>>
PeerAddr == <<3, 1>>
SYNC_NODES == {SyncAddr}
PEER_NODES == {PeerAddr}

NoAddr == <<-1, 0>>
EmptyMap == [x \in {} |-> 0]
MapPut(m, k, v) == [x \in (DOMAIN m) \cup {k} |-> IF x = k THEN v ELSE m[x]]
MapDel(m, k) == [x \in (DOMAIN m) \ {k} |-> m[x]]
MapGet(m, k, d) == IF k \in DOMAIN m THEN m[k] ELSE d
Min(a, b) == IF a < b THEN a ELSE b
Max(a, b) == IF a > b THEN a ELSE b
Range(s) == {s[i] : i \in DOMAIN s}

ActorIds == 1..MaxActors
IdleActor == [pc |-> "Idle", peer_ip |-> NoAddr, nonces |-> {},
              peer_nonce |-> 0, last_seen |-> 0, version |-> 0, accepted |-> {},
              seen_inbound_blocks |-> EmptyMap, seen_inbound_transactions |-> EmptyMap]

(* The manager's and the tasks' state as one value, so that the handlers are
   operators from worlds to worlds. *)
World == [connected_peers |-> connected_peers, candidate_peers |-> candidate_peers,
          restricted_peers |-> restricted_peers,
          seen_inbound_connections |-> seen_inbound_connections,
          seen_outbound_blocks |-> seen_outbound_blocks,
          seen_outbound_connections |-> seen_outbound_connections,
          seen_outbound_transactions |-> seen_outbound_transactions,
          peers_router |-> peers_router, actors |-> actors, outbound |-> outbound,
          ledger |-> <<>>, wire |-> <<>>, dialed |-> {}, blocked |-> FALSE]

---------------------------------------------------------------------------
(* Peers: queries *)

is_self(w, peer_ip) ==
    \/ peer_ip = local_ip
    \/ /\ (is_unspecified(Ip(peer_ip)) \/ is_loopback(Ip(peer_ip)))
       /\ Port(peer_ip) = Port(local_ip)

is_connected_to(w, ip) == ip \in DOMAIN w.connected_peers

is_restricted(w, ip) ==
    IF ip \in DOMAIN w.restricted_peers
    THEN now - w.restricted_peers[ip] < RADIO_SILENCE_IN_SECS
    ELSE FALSE

connected_nonces(w) == {w.connected_peers[p].nonce : p \in DOMAIN w.connected_peers}

num_connected_peers(w) == Cardinality(DOMAIN w.connected_peers)

(* A channel's receiver lives as long as its task has not ended. *)
ChannelClosed(w, ch) == w.actors[ch].pc \notin {"Register", "Steady"}

(* The tasks that hold the receiving half of no channel any more and to whose
   channel nothing refers are gone; their slots are free again. *)
Referenced(w, ch) ==
    \/ \E p \in DOMAIN w.connected_peers : w.connected_peers[p].chan = ch
    \/ \E i \in DOMAIN w.peers_router :
          w.peers_router[i].type = "PeerConnected" /\ w.peers_router[i].chan = ch

Reap(w) ==
    [w EXCEPT
       !.actors = [c \in ActorIds |->
                     IF w.actors[c].pc = "Done" /\ ~Referenced(w, c)
                     THEN IdleActor ELSE w.actors[c]],
       !.outbound = [c \in ActorIds |->
                     IF ChannelClosed(w, c) THEN <<>> ELSE w.outbound[c]]]

(* Timestamps too old to decide any comparison of the code again are dropped
   from the state (the code keeps them; it reads them as it reads a missing
   entry), and a silent task's last_seen is kept only as "silent". *)
Recent(m, t, span) == [k \in {k \in DOMAIN m : t - m[k] <= span} |-> m[k]]

RecentItems(m, t, span) ==
    LET r == [p \in DOMAIN m |-> Recent(m[p], t, span)]
    IN [p \in {p \in DOMAIN r : DOMAIN r[p] # {}} |-> r[p]]

Forget(w, t) ==
    [w EXCEPT
       !.restricted_peers = Recent(@, t, RADIO_SILENCE_IN_SECS - 1),
       !.seen_outbound_connections = Recent(@, t, RADIO_SILENCE_IN_SECS - 1),
       !.seen_inbound_connections =
           [k \in {k \in DOMAIN @ : t - @[k].last_seen <= RADIO_SILENCE_IN_SECS} |-> @[k]],
       !.seen_outbound_blocks = RecentItems(@, t, RADIO_SILENCE_IN_SECS),
       !.seen_outbound_transactions = RecentItems(@, t, RADIO_SILENCE_IN_SECS),
       !.actors = [c \in ActorIds |->
           [@[c] EXCEPT
              !.last_seen = IF @ < t - RADIO_SILENCE_IN_SECS
                            THEN t - RADIO_SILENCE_IN_SECS - 1 ELSE @,
              !.seen_inbound_blocks =
                  Recent(@, t, Max(RADIO_SILENCE_IN_SECS, FLOOD_WINDOW_IN_SECS)),
              !.seen_inbound_transactions =
                  Recent(@, t, Max(RADIO_SILENCE_IN_SECS, FLOOD_WINDOW_IN_SECS))]]]

FreeSlots(w) == {c \in ActorIds : w.actors[c].pc = "Idle"}

(* peers_router.send(request).await: waits while the queue is full. *)
RouterSend(w, request) ==
    IF Len(w.peers_router) >= ROUTER_CAPACITY
    THEN [w EXCEPT !.blocked = TRUE]
    ELSE [w EXCEPT !.peers_router = Append(@, request)]

LedgerSend(w, request) == [w EXCEPT !.ledger = Append(@, request)]

SocketSend(w, ch, message) == [w EXCEPT !.wire = Append(@, [chan |-> ch, message |-> message])]

---------------------------------------------------------------------------
(* Peer::handler: snapshot the connected nonces and spawn the task; the task
   starts the handshake by sending its ChallengeRequest. *)
handler(w, stream) ==
    IF FreeSlots(w) = {} THEN [w EXCEPT !.blocked = TRUE] ELSE
    LET ch == CHOOSE c \in FreeSlots(w) : \A d \in FreeSlots(w) : c <= d
        w1 == [w EXCEPT !.actors[ch] =
                  [IdleActor EXCEPT !.pc = "AwaitRequest", !.peer_ip = stream,
                                    !.nonces = connected_nonces(w)]]
    IN SocketSend(w1, ch, [type |-> "ChallengeRequest", version |-> MESSAGE_VERSION,
                           listener_port |-> Port(local_ip), nonce |-> local_nonce,
                           block_height |-> CHALLENGE_HEIGHT])

---------------------------------------------------------------------------
(* Peers::add_candidate_peers *)
RECURSIVE add_each_candidate(_, _)
add_each_candidate(w, peers) ==
    IF peers = <<>> THEN w
    ELSE LET peer_ip == Head(peers)
             w1 == IF /\ ~is_self(w, peer_ip)
                      /\ ~is_connected_to(w, peer_ip)
                      /\ peer_ip \notin w.candidate_peers
                   THEN [w EXCEPT !.candidate_peers = @ \cup {peer_ip}]
                   ELSE w
         IN add_each_candidate(w1, Tail(peers))

(* A manager that fills the candidates up to the threshold. *)
add_candidate_peers_up_to(w, peers) ==
    IF Cardinality(w.candidate_peers) < MAXIMUM_CANDIDATE_PEERS
    THEN add_each_candidate(w, SubSeq(peers, 1, Min(Len(peers), MAXIMUM_CANDIDATE_PEERS)))
    ELSE w

add_candidate_peers(w, peers) ==
    IF Cardinality(w.candidate_peers) + Len(peers) < MAXIMUM_CANDIDATE_PEERS
    THEN add_each_candidate(w, SubSeq(peers, 1, Min(Len(peers), MAXIMUM_CANDIDATE_PEERS)))
    ELSE w

(* Peers::send *)
always_ready_to_send(seen, item) == TRUE

is_ready_to_send(seen, item) ==
    now - MapGet(seen, item, UNIX_EPOCH) > RADIO_SILENCE_IN_SECS

(* A manager that ignores a failed send. *)
send_keeping_closed(w, peer, message) ==
    IF peer \notin DOMAIN w.connected_peers THEN w
    ELSE
      LET ch == w.connected_peers[peer].chan
          seen_blocks == MapGet(w.seen_outbound_blocks, peer, EmptyMap)
          seen_transactions == MapGet(w.seen_outbound_transactions, peer, EmptyMap)
          ready == CASE message.type = "UnconfirmedBlock" ->
                          is_ready_to_send(seen_blocks, message.hash)
                     [] message.type = "UnconfirmedTransaction" ->
                          is_ready_to_send(seen_transactions, message.id)
                     [] OTHER -> TRUE
          w1 == CASE message.type = "UnconfirmedBlock" ->
                       [w EXCEPT !.seen_outbound_blocks =
                           MapPut(@, peer, MapPut(seen_blocks, message.hash, now))]
                  [] message.type = "UnconfirmedTransaction" ->
                       [w EXCEPT !.seen_outbound_transactions =
                           MapPut(@, peer, MapPut(seen_transactions, message.id, now))]
                  [] OTHER -> w
      IN IF ~ready THEN w1
         ELSE IF ChannelClosed(w1, ch)
              THEN w1
              ELSE IF Len(w1.outbound[ch]) >= MaxOutbound
                   THEN [w1 EXCEPT !.blocked = TRUE]
                   ELSE [w1 EXCEPT !.outbound[ch] = Append(@, message)]

send(w, peer, message) ==
    IF peer \notin DOMAIN w.connected_peers THEN w
    ELSE
      LET ch == w.connected_peers[peer].chan
          seen_blocks == MapGet(w.seen_outbound_blocks, peer, EmptyMap)
          seen_transactions == MapGet(w.seen_outbound_transactions, peer, EmptyMap)
          ready == CASE message.type = "UnconfirmedBlock" ->
                          is_ready_to_send(seen_blocks, message.hash)
                     [] message.type = "UnconfirmedTransaction" ->
                          is_ready_to_send(seen_transactions, message.id)
                     [] OTHER -> TRUE
          w1 == CASE message.type = "UnconfirmedBlock" ->
                       [w EXCEPT !.seen_outbound_blocks =
                           MapPut(@, peer, MapPut(seen_blocks, message.hash, now))]
                  [] message.type = "UnconfirmedTransaction" ->
                       [w EXCEPT !.seen_outbound_transactions =
                           MapPut(@, peer, MapPut(seen_transactions, message.id, now))]
                  [] OTHER -> w
      IN IF ~ready THEN w1
         ELSE IF ChannelClosed(w1, ch)
              THEN [w1 EXCEPT !.connected_peers = MapDel(@, peer)]
              ELSE IF Len(w1.outbound[ch]) >= MaxOutbound
                   THEN [w1 EXCEPT !.blocked = TRUE]
                   ELSE [w1 EXCEPT !.outbound[ch] = Append(@, message)]

(* Peers::propagate: the peers are those connected when the call starts. *)
RECURSIVE send_each(_, _, _)
send_each(w, peers, message) ==
    IF peers = {} THEN w
    ELSE LET peer == CHOOSE p \in peers : TRUE
         IN send_each(send(w, peer, message), peers \ {peer}, message)

(* A broadcast that spares nobody. *)
propagate_to_all(w, sender, message) ==
    send_each(w, DOMAIN w.connected_peers, message)

propagate(w, sender, message) ==
    send_each(w, DOMAIN w.connected_peers \ {sender}, message)

---------------------------------------------------------------------------
(* Peers::update, one operator per request *)

(* A manager that dials whenever the peer is admissible, however recent its
   last dial. *)
connect_every_time(w, peer_ip, dial) ==
    IF is_self(w, peer_ip) THEN w
    ELSE IF num_connected_peers(w) >= MAXIMUM_NUMBER_OF_PEERS THEN w
    ELSE IF is_connected_to(w, peer_ip) THEN w
    ELSE IF is_restricted(w, peer_ip) THEN w
    ELSE
      LET w1 == [w EXCEPT !.seen_outbound_connections = MapPut(@, peer_ip, now),
                          !.dialed = @ \cup {peer_ip}]
      IN IF dial = "ok"
         THEN handler(w1, peer_ip)
         ELSE [w1 EXCEPT !.candidate_peers = @ \ {peer_ip}]

(* A manager that forgets the time of a dial that failed. *)
connect_forgetting_failed(w, peer_ip, dial) ==
    IF is_self(w, peer_ip) THEN w
    ELSE IF num_connected_peers(w) >= MAXIMUM_NUMBER_OF_PEERS THEN w
    ELSE IF is_connected_to(w, peer_ip) THEN w
    ELSE IF is_restricted(w, peer_ip) THEN w
    ELSE
      LET last_seen == MapGet(w.seen_outbound_connections, peer_ip, UNIX_EPOCH)
          elapsed == now - last_seen
      IN IF elapsed < RADIO_SILENCE_IN_SECS
         THEN [w EXCEPT !.seen_outbound_connections = MapPut(@, peer_ip, last_seen)]
         ELSE
           LET w1 == [w EXCEPT !.seen_outbound_connections = MapPut(@, peer_ip, now),
                               !.dialed = @ \cup {peer_ip}]
           IN IF dial = "ok"
              THEN handler(w1, peer_ip)
              ELSE [w1 EXCEPT !.candidate_peers = @ \ {peer_ip},
                              !.seen_outbound_connections = MapDel(@, peer_ip)]

(* `dialed` collects the addresses TcpStream::connect is called with. *)
Connect(w, peer_ip, dial) ==
    IF is_self(w, peer_ip) THEN w
    ELSE IF num_connected_peers(w) >= MAXIMUM_NUMBER_OF_PEERS THEN w
    ELSE IF is_connected_to(w, peer_ip) THEN w
    ELSE IF is_restricted(w, peer_ip) THEN w
    ELSE
      LET last_seen == MapGet(w.seen_outbound_connections, peer_ip, UNIX_EPOCH)
          elapsed == now - last_seen
      IN IF elapsed < RADIO_SILENCE_IN_SECS
         THEN [w EXCEPT !.seen_outbound_connections = MapPut(@, peer_ip, last_seen)]
         ELSE
           LET w1 == [w EXCEPT !.seen_outbound_connections = MapPut(@, peer_ip, now),
                               !.dialed = @ \cup {peer_ip}]
           IN IF dial = "ok"
              THEN handler(w1, peer_ip)
              ELSE [w1 EXCEPT !.candidate_peers = @ \ {peer_ip}]

(* A Heartbeat that takes its excess peers from all of connected_peers. *)
DisconnectChoicesOfAll(w) ==
    IF num_connected_peers(w) > MAXIMUM_NUMBER_OF_PEERS
    THEN LET num_excess_peers == num_connected_peers(w) - MAXIMUM_NUMBER_OF_PEERS
         IN {d \in SUBSET DOMAIN w.connected_peers : Cardinality(d) = num_excess_peers}
    ELSE {{}}

(* Heartbeat, first half: `to_disconnect` is what filter(..).take(num_excess_peers)
   yields in the map's iteration order. *)
DisconnectChoices(w) ==
    IF num_connected_peers(w) > MAXIMUM_NUMBER_OF_PEERS
    THEN LET num_excess_peers == num_connected_peers(w) - MAXIMUM_NUMBER_OF_PEERS
             eligible == {p \in DOMAIN w.connected_peers :
                            p \notin SYNC_NODES /\ p \notin PEER_NODES}
         IN {d \in SUBSET eligible :
               Cardinality(d) = Min(num_excess_peers, Cardinality(eligible))}
    ELSE {{}}

HeartbeatDisconnect(w, to_disconnect) ==
    send_each(w, to_disconnect, [type |-> "Disconnect"])

(* Heartbeat, second half: `chosen` is what choose_multiple yields. *)
HeartbeatCandidates(w) ==
    LET w1 == IF NODE_TYPE # "Sync" THEN add_candidate_peers(w, <<SyncAddr>>) ELSE w
    IN add_candidate_peers(w1, <<PeerAddr>>)

ConnectChoices(w) ==
    {c \in SUBSET w.candidate_peers :
       Cardinality(c) = Min(MINIMUM_NUMBER_OF_PEERS, Cardinality(w.candidate_peers))}

RECURSIVE request_connects(_, _)
request_connects(w, chosen) ==
    IF chosen = {} THEN w
    ELSE LET peer_ip == CHOOSE p \in chosen : TRUE
             w1 == IF ~is_connected_to(w, peer_ip)
                   THEN RouterSend(w, [type |-> "Connect", peer_ip |-> peer_ip])
                   ELSE w
         IN request_connects(w1, chosen \ {peer_ip})

(* A Heartbeat that looks for peers however many it has. *)
HeartbeatConnectAlways(w, chosen) ==
    propagate(request_connects(HeartbeatCandidates(w), chosen),
              local_ip, [type |-> "PeerRequest"])

HeartbeatConnect(w, chosen) ==
    IF num_connected_peers(w) < MINIMUM_NUMBER_OF_PEERS
    THEN propagate(request_connects(HeartbeatCandidates(w), chosen),
                   local_ip, [type |-> "PeerRequest"])
    ELSE w

MessagePropagate(w, sender, message) == propagate(w, sender, message)

MessageSend(w, sender, message) == send(w, sender, message)

(* A tracker that counts attempts whatever port they come from. *)
peer_connecting_any_port(w, peer_ip) ==
    IF is_self(w, peer_ip) THEN w
    ELSE IF num_connected_peers(w) >= MAXIMUM_NUMBER_OF_PEERS THEN w
    ELSE IF is_connected_to(w, peer_ip) THEN w
    ELSE IF is_restricted(w, peer_ip) THEN w
    ELSE
      LET peer_lookup == IF is_loopback(Ip(peer_ip)) THEN peer_ip
                         ELSE <<Ip(peer_ip), U16_MAX>>
          peer_port == Port(peer_ip)
          entry == MapGet(w.seen_inbound_connections, peer_lookup,
                          [initial_port |-> peer_port, num_attempts |-> 0,
                           last_seen |-> UNIX_EPOCH])
          elapsed == now - entry.last_seen
          fresh == IF elapsed > RADIO_SILENCE_IN_SECS
                   THEN [initial_port |-> peer_port, num_attempts |-> 0, last_seen |-> now]
                   ELSE entry
      IN IF fresh.num_attempts > MAXIMUM_CONNECTION_FAILURES
         THEN [w EXCEPT !.seen_inbound_connections = MapPut(@, peer_lookup, fresh)]
         ELSE IF fresh.num_attempts >= MaxAttempts THEN [w EXCEPT !.blocked = TRUE]
         ELSE handler([w EXCEPT !.seen_inbound_connections =
                          MapPut(@, peer_lookup,
                                 [fresh EXCEPT !.num_attempts = @ + 1])],
                      peer_ip)

PeerConnecting(w, peer_ip) ==
    IF is_self(w, peer_ip) THEN w
    ELSE IF num_connected_peers(w) >= MAXIMUM_NUMBER_OF_PEERS THEN w
    ELSE IF is_connected_to(w, peer_ip) THEN w
    ELSE IF is_restricted(w, peer_ip) THEN w
    ELSE
      LET peer_lookup == IF is_loopback(Ip(peer_ip)) THEN peer_ip
                         ELSE <<Ip(peer_ip), U16_MAX>>
          peer_port == Port(peer_ip)
          entry == MapGet(w.seen_inbound_connections, peer_lookup,
                          [initial_port |-> peer_port, num_attempts |-> 0,
                           last_seen |-> UNIX_EPOCH])
          elapsed == now - entry.last_seen
          fresh == IF elapsed > RADIO_SILENCE_IN_SECS
                   THEN [initial_port |-> peer_port, num_attempts |-> 0, last_seen |-> now]
                   ELSE entry
      IN IF fresh.initial_port < peer_port
            /\ fresh.num_attempts > MAXIMUM_CONNECTION_FAILURES
         THEN [w EXCEPT !.seen_inbound_connections = MapPut(@, peer_lookup, fresh)]
         ELSE IF fresh.num_attempts >= MaxAttempts THEN [w EXCEPT !.blocked = TRUE]
         ELSE handler([w EXCEPT !.seen_inbound_connections =
                          MapPut(@, peer_lookup,
                                 [fresh EXCEPT !.num_attempts = @ + 1])],
                      peer_ip)

PeerConnectedKeepingCandidate(w, peer_ip, peer_nonce, ch) ==
    [w EXCEPT !.connected_peers = MapPut(@, peer_ip, [nonce |-> peer_nonce, chan |-> ch])]

PeerConnected(w, peer_ip, peer_nonce, ch) ==
    [w EXCEPT !.connected_peers = MapPut(@, peer_ip, [nonce |-> peer_nonce, chan |-> ch]),
              !.candidate_peers = @ \ {peer_ip}]

PeerDisconnected(w, peer_ip) ==
    [w EXCEPT !.connected_peers = MapDel(@, peer_ip),
              !.candidate_peers = @ \cup {peer_ip},
              !.seen_outbound_blocks = MapDel(@, peer_ip),
              !.seen_outbound_transactions = MapDel(@, peer_ip)]

PeerRestricted(w, peer_ip) ==
    [w EXCEPT !.restricted_peers = MapPut(@, peer_ip, now)]

SendPeerResponse(w, recipient) ==
    send(w, recipient, [type |-> "PeerResponse", peer_ips |-> DOMAIN w.connected_peers])

ReceivePeerResponse(w, peer_ips) == add_candidate_peers(w, peer_ips)

Heartbeat(w, to_disconnect, chosen) ==
    HeartbeatConnect(HeartbeatDisconnect(w, to_disconnect), chosen)

---------------------------------------------------------------------------
(* Peer: the task of one connection *)

GenesisHash == 0
GenesisHeader == [height |-> 0, id |-> GenesisHash, is_valid |-> TRUE]

(* A task that ends without a word to the ledger. *)
exit_silently(w, ch) == [w EXCEPT !.actors[ch].pc = "Done"]

(* A task that reported its peer as restricted whenever it ends. *)
exit_restricting(w, ch) ==
    LedgerSend(RouterSend([w EXCEPT !.actors[ch].pc = "Done"],
                          [type |-> "PeerRestricted", peer_ip |-> w.actors[ch].peer_ip]),
               [type |-> "Disconnect", peer_ip |-> w.actors[ch].peer_ip])

(* The task ends: after the loop it routes a Disconnect to the ledger. *)
exit(w, ch) ==
    LedgerSend([w EXCEPT !.actors[ch].pc = "Done"],
               [type |-> "Disconnect", peer_ip |-> w.actors[ch].peer_ip])

(* Peer::new fails: the task returns without a channel or a Disconnect. *)
fail(w, ch) == [w EXCEPT !.actors[ch] = [IdleActor EXCEPT !.pc = "Done"]]

(* The two nonce checks of Peer::handshake. *)
attempted_nobody(peer_nonce) == FALSE

attempted_self(peer_nonce) == local_nonce = peer_nonce

connected_to_nobody(connected_nonces_, peer_nonce) == FALSE

already_connected(connected_nonces_, peer_nonce) == peer_nonce \in connected_nonces_

handshake_request_connecting(w, ch, frame, reachable) ==
    LET a == w.actors[ch] IN
    IF frame.type # "ChallengeRequest" THEN fail(w, ch)
    ELSE IF frame.version < MESSAGE_VERSION THEN fail(w, ch)
    ELSE IF Port(a.peer_ip) # frame.listener_port /\ ~reachable THEN fail(w, ch)
    ELSE IF attempted_self(frame.nonce) THEN fail(w, ch)
    ELSE IF already_connected(a.nonces, frame.nonce) THEN fail(w, ch)
    ELSE SocketSend([w EXCEPT !.actors[ch].pc = "Register",
                              !.actors[ch].nonces = {},
                              !.actors[ch].peer_ip = <<Ip(a.peer_ip), frame.listener_port>>,
                              !.actors[ch].peer_nonce = frame.nonce,
                              !.actors[ch].accepted = {"ChallengeRequest"}],
                    ch, [type |-> "ChallengeResponse", header |-> GenesisHeader])

(* Peer::handshake, from the counterparty's ChallengeRequest to the local
   ChallengeResponse.  `reachable` is the outcome of the listener-port dial. *)
handshake_request(w, ch, frame, reachable) ==
    LET a == w.actors[ch] IN
    IF frame.type # "ChallengeRequest" THEN fail(w, ch)
    ELSE IF frame.version < MESSAGE_VERSION THEN fail(w, ch)
    ELSE IF Port(a.peer_ip) # frame.listener_port /\ ~reachable THEN fail(w, ch)
    ELSE IF attempted_self(frame.nonce) THEN fail(w, ch)
    ELSE IF already_connected(a.nonces, frame.nonce) THEN fail(w, ch)
    ELSE SocketSend([w EXCEPT !.actors[ch].pc = "AwaitResponse",
                              !.actors[ch].nonces = {},
                              !.actors[ch].peer_ip = <<Ip(a.peer_ip), frame.listener_port>>,
                              !.actors[ch].peer_nonce = frame.nonce,
                              !.actors[ch].accepted = {"ChallengeRequest"}],
                    ch, [type |-> "ChallengeResponse", header |-> GenesisHeader])

(* Peer::handshake, the counterparty's ChallengeResponse; then Peer::new asks
   the ledger for the first ping. *)
handshake_response(w, ch, frame) ==
    IF frame.type # "ChallengeResponse" THEN fail(w, ch)
    ELSE IF /\ frame.header.height = CHALLENGE_HEIGHT
            /\ frame.header = GenesisHeader
            /\ frame.header.is_valid
         THEN LedgerSend([w EXCEPT !.actors[ch].pc = "Register",
                                   !.actors[ch].accepted = @ \cup {"ChallengeResponse"}],
                         [type |-> "SendPing", peer_ip |-> w.actors[ch].peer_ip])
         ELSE fail(w, ch)

(* Peer::new, the rest: create the channel and register with the manager. *)
register(w, ch) ==
    LET a == w.actors[ch] IN
    RouterSend([w EXCEPT !.actors[ch].pc = "Steady", !.actors[ch].last_seen = now,
                         !.actors[ch].peer_nonce = 0],
               [type |-> "PeerConnected", peer_ip |-> a.peer_ip,
                peer_nonce |-> a.peer_nonce, chan |-> ch])

(* The loop's first arm when every sender of the channel is gone and the
   channel is empty: recv yields None, the arm does not match and the select
   goes on waiting for the socket. *)
outbound_closed(w, ch) == w

(* The loop's first arm: a message from the outbound channel. *)
outbound_recv(w, ch) ==
    LET a == w.actors[ch]
        message == Head(w.outbound[ch])
        w1 == [w EXCEPT !.outbound[ch] = Tail(@)]
    IN IF now - a.last_seen > RADIO_SILENCE_IN_SECS
       THEN exit(w1, ch)
       ELSE SocketSend(w1, ch, message)

no_frequency(seen) == 0

frequency(seen) ==
    Cardinality({i \in DOMAIN seen : now - seen[i] <= FLOOD_WINDOW_IN_SECS})

(* A task that lets the limit itself pass and restricts above it. *)
unconfirmed_above_limit(w, ch, field, item, limit, request) ==
    LET a == w.actors[ch]
        seen == a[field]
    IN IF frequency(seen) > limit
       THEN exit(RouterSend(w, [type |-> "PeerRestricted", peer_ip |-> a.peer_ip]), ch)
       ELSE LET is_ready_to_route ==
                    now - MapGet(seen, item, UNIX_EPOCH) > RADIO_SILENCE_IN_SECS
                w1 == [w EXCEPT !.actors[ch][field] = MapPut(seen, item, now)]
            IN IF is_ready_to_route
               THEN LedgerSend(w1, [type |-> request, peer_ip |-> a.peer_ip, item |-> item])
               ELSE w1

(* A task that stamps an item only when it routes it. *)
unconfirmed_stamping_routed(w, ch, field, item, limit, request) ==
    LET a == w.actors[ch]
        seen == a[field]
    IN IF frequency(seen) >= limit
       THEN exit(RouterSend(w, [type |-> "PeerRestricted", peer_ip |-> a.peer_ip]), ch)
       ELSE IF now - MapGet(seen, item, UNIX_EPOCH) > RADIO_SILENCE_IN_SECS
            THEN LedgerSend([w EXCEPT !.actors[ch][field] = MapPut(seen, item, now)],
                            [type |-> request, peer_ip |-> a.peer_ip, item |-> item])
            ELSE w

(* UnconfirmedBlock / UnconfirmedTransaction received. *)
unconfirmed(w, ch, field, item, limit, request) ==
    LET a == w.actors[ch]
        seen == a[field]
    IN IF frequency(seen) >= limit
       THEN exit(RouterSend(w, [type |-> "PeerRestricted", peer_ip |-> a.peer_ip]), ch)
       ELSE LET is_ready_to_route ==
                    now - MapGet(seen, item, UNIX_EPOCH) > RADIO_SILENCE_IN_SECS
                w1 == [w EXCEPT !.actors[ch][field] = MapPut(seen, item, now)]
            IN IF is_ready_to_route
               THEN LedgerSend(w1, [type |-> request, peer_ip |-> a.peer_ip, item |-> item])
               ELSE w1

(* The loop's second arm: Some(Ok(message)) from the socket. *)
inbound(w, ch, message) ==
    LET a == w.actors[ch] IN
    IF now - a.last_seen > RADIO_SILENCE_IN_SECS THEN exit(w, ch)
    ELSE
      LET w1 == [w EXCEPT !.actors[ch].last_seen = now]
          peer_ip == a.peer_ip
      IN CASE message.type \in {"BlockRequest", "BlockResponse", "Pong"} ->
                LedgerSend(w1, [type |-> message.type, peer_ip |-> peer_ip])
           [] message.type \in {"ChallengeRequest", "ChallengeResponse"} -> exit(w1, ch)
           [] message.type = "Disconnect" ->
                exit(LedgerSend(w1, [type |-> "Disconnect", peer_ip |-> peer_ip]), ch)
           [] message.type = "PeerRequest" ->
                RouterSend(w1, [type |-> "SendPeerResponse", peer_ip |-> peer_ip])
           [] message.type = "PeerResponse" ->
                RouterSend(w1, [type |-> "ReceivePeerResponse", peer_ips |-> message.peer_ips])
           [] message.type = "Ping" ->
                IF message.version < MESSAGE_VERSION THEN exit(w1, ch)
                ELSE LedgerSend([w1 EXCEPT !.actors[ch].version = message.version],
                                [type |-> "Ping", peer_ip |-> peer_ip])
           [] message.type = "UnconfirmedBlock" ->
                unconfirmed(w1, ch, "seen_inbound_blocks", message.hash,
                            BLOCK_FLOOD_LIMIT, "UnconfirmedBlock")
           [] message.type = "UnconfirmedTransaction" ->
                unconfirmed(w1, ch, "seen_inbound_transactions", message.id,
                            TRANSACTION_FLOOD_LIMIT, "UnconfirmedTransaction")
           [] OTHER -> exit(w1, ch)

(* Some(Err(error)): logged, the loop goes on. *)
inbound_error(w, ch) == w

(* None: the stream has ended. *)
inbound_eof(w, ch) == exit(w, ch)

---------------------------------------------------------------------------
(* Peers::update.  `nd` carries what the environment decides during the call:
   the outcome of the dial, the iteration order of the maps, the random choice. *)
update(w, request, nd) ==
    CASE request.type = "Connect" -> Connect(w, request.peer_ip, nd.dial)
      [] request.type = "Heartbeat" -> Heartbeat(w, nd.to_disconnect, nd.chosen)
      [] request.type = "MessagePropagate" ->
            MessagePropagate(w, request.peer_ip, request.message)
      [] request.type = "MessageSend" -> MessageSend(w, request.peer_ip, request.message)
      [] request.type = "PeerConnecting" -> PeerConnecting(w, request.peer_ip)
      [] request.type = "PeerConnected" ->
            PeerConnected(w, request.peer_ip, request.peer_nonce, request.chan)
      [] request.type = "PeerDisconnected" -> PeerDisconnected(w, request.peer_ip)
      [] request.type = "PeerRestricted" -> PeerRestricted(w, request.peer_ip)
      [] request.type = "SendPeerResponse" -> SendPeerResponse(w, request.peer_ip)
      [] request.type = "ReceivePeerResponse" -> ReceivePeerResponse(w, request.peer_ips)

NoChoice == [dial |-> "ok", to_disconnect |-> {}, chosen |-> {}]
DialOutcomes == {"ok", "error", "timeout"}

---------------------------------------------------------------------------
(* History *)

IsGossip(message) == message.type \in {"UnconfirmedBlock", "UnconfirmedTransaction"}
GossipItem(message) == IF message.type = "UnconfirmedBlock" THEN message.hash ELSE message.id
GossipKey(peer, message) == <<peer, message.type, GossipItem(message)>>

(* What the step has put on the channel of task ch. *)
Appended(w2, ch) ==
    IF Len(w2.outbound[ch]) > Len(outbound[ch])
    THEN SubSeq(w2.outbound[ch], Len(outbound[ch]) + 1, Len(w2.outbound[ch]))
    ELSE <<>>

PlacedBy(w2) ==
    {GossipKey(p, m) : <<p, m>> \in
        {<<p, m>> \in UNION {{<<q, x>> : x \in Range(Appended(w2, connected_peers[q].chan))} :
                               q \in DOMAIN connected_peers} : IsGossip(m)}}

(* The last placement of each item on each peer's channel while its window of
   RADIO_SILENCE_IN_SECS lasts: when it happened, whether PeerDisconnected(peer)
   was processed since, and whether it repeats a placement of the same window
   ("kept": with the peer's dedup table kept, "cleared": after PeerDisconnected). *)
NextPlaced(w2, op, arg) ==
    LET new == PlacedBy(w2)
    IN [k \in DOMAIN placed \cup new |->
          IF k \in new
          THEN [t |-> now, disconnected |-> FALSE,
                repeat |-> IF k \notin DOMAIN placed THEN "none"
                           ELSE IF placed[k].disconnected THEN "cleared" ELSE "kept"]
          ELSE IF op = "PeerDisconnected" /\ arg = k[1]
               THEN [placed[k] EXCEPT !.disconnected = TRUE]
               ELSE placed[k]]

(* The counterparty runs Peer::handshake on its side of the connection:
   `inbox` holds the frames the node has sent it, `outbox` the frames it has
   sent and the node has not read.  Where a specification does not follow the
   counterparty, it is "Off" and the frames of the node's tasks are given. *)
REMOTE_NONCE == 1
REMOTE_LISTENER_PORT == 1
RemoteOff == [pc |-> "Off", version |-> 0, genesis |-> 0, inbox |-> <<>>, outbox |-> <<>>]

WireFrames(w2) == [i \in DOMAIN w2.wire |-> w2.wire[i].message]

Exchange(w2, op) ==
    IF remote.pc = "Off" THEN remote
    ELSE IF op = "PeerConnecting"
    THEN IF w2.wire = <<>> THEN remote
         ELSE [remote EXCEPT
                 !.pc = "AwaitRequest",
                 !.inbox = WireFrames(w2),
                 !.outbox = <<[type |-> "ChallengeRequest", version |-> remote.version,
                               listener_port |-> REMOTE_LISTENER_PORT,
                               nonce |-> REMOTE_NONCE]>>]
    ELSE [remote EXCEPT
            !.inbox = @ \o WireFrames(w2),
            !.outbox = IF op \in {"HandshakeRequest", "HandshakeResponse"}
                       THEN Tail(@) ELSE @]

(* Peer::handshake on the counterparty's side, one frame of the node at a time. *)
remote_handshake(r, frame) ==
    IF r.pc = "AwaitRequest"
    THEN IF /\ frame.type = "ChallengeRequest"
            /\ frame.version >= r.version
            /\ frame.nonce # REMOTE_NONCE
         THEN [r EXCEPT !.pc = "AwaitResponse",
                        !.outbox = Append(@, [type |-> "ChallengeResponse",
                                              header |-> [GenesisHeader EXCEPT
                                                            !.id = r.genesis]])]
         ELSE [r EXCEPT !.pc = "Rejected"]
    ELSE IF r.pc = "AwaitResponse"
    THEN IF /\ frame.type = "ChallengeResponse"
            /\ frame.header.height = CHALLENGE_HEIGHT
            /\ frame.header = [GenesisHeader EXCEPT !.id = r.genesis]
            /\ frame.header.is_valid
         THEN [r EXCEPT !.pc = "Accepted"]
         ELSE [r EXCEPT !.pc = "Rejected"]
    ELSE r

(* A step commits the world its handler returns.  (The handler's result is
   bound by \E over a singleton so that it is computed once.) *)
CommitPlaced(result, op, history(_)) ==
  \E w2 \in {result} :
    /\ ~w2.blocked
    /\ \E w3 \in {Forget(Reap(w2), now)} :
       /\ connected_peers' = w3.connected_peers
       /\ candidate_peers' = w3.candidate_peers
       /\ restricted_peers' = w3.restricted_peers
       /\ seen_inbound_connections' = w3.seen_inbound_connections
       /\ seen_outbound_blocks' = w3.seen_outbound_blocks
       /\ seen_outbound_connections' = w3.seen_outbound_connections
       /\ seen_outbound_transactions' = w3.seen_outbound_transactions
       /\ peers_router' = w3.peers_router
       /\ actors' = w3.actors
       /\ outbound' = w3.outbound
    /\ placed' = history(w2)
    /\ remote' = Exchange(w2, op)
    /\ UNCHANGED now
    /\ UNCHANGED <<env, ledgerVars, rpcVars>>

Commit(result, op, arg) ==
    CommitPlaced(result, op, LAMBDA w2 : NextPlaced(w2, op, arg))

---------------------------------------------------------------------------
(* Actions.  Each takes the sets its inputs are drawn from. *)

Tick(limit) ==
    /\ now < limit
    /\ now' = now + 1
    /\ placed' = [k \in {k \in DOMAIN placed : now + 1 - placed[k].t <= RADIO_SILENCE_IN_SECS}
                    |-> placed[k]]
    /\ \E w3 \in {Forget(World, now + 1)} :
       /\ restricted_peers' = w3.restricted_peers
       /\ seen_inbound_connections' = w3.seen_inbound_connections
       /\ seen_outbound_blocks' = w3.seen_outbound_blocks
       /\ seen_outbound_connections' = w3.seen_outbound_connections
       /\ seen_outbound_transactions' = w3.seen_outbound_transactions
       /\ actors' = w3.actors
    /\ UNCHANGED <<connected_peers, candidate_peers, peers_router, outbound, remote>>
    /\ UNCHANGED <<env, ledgerVars, rpcVars>>

(* The outcomes of the TCP dial a request can lead to. *)
DialChoices(request) == IF request.type = "Connect" THEN DialOutcomes ELSE {"ok"}

(* The manager takes the next request of its queue. *)
RouterRecv ==
    /\ peers_router # <<>>
    /\ LET request == Head(peers_router)
           w == [World EXCEPT !.peers_router = Tail(@)]
       IN \E dial \in DialChoices(request) :
            Commit(update(w, request, [NoChoice EXCEPT !.dial = dial]),
                   request.type,
                   IF request.type = "ReceivePeerResponse" THEN NoAddr ELSE request.peer_ip)

EnvConnect(addrs) ==
    \E peer_ip \in addrs, dial \in DialOutcomes :
      Commit(update(World, [type |-> "Connect", peer_ip |-> peer_ip],
                    [NoChoice EXCEPT !.dial = dial]),
             "Connect", peer_ip)

EnvHeartbeat ==
    \E to_disconnect \in DisconnectChoices(World) :
      LET w1 == HeartbeatDisconnect(World, to_disconnect)
      IN \E chosen \in ConnectChoices(HeartbeatCandidates(w1)) :
           Commit(update(World, [type |-> "Heartbeat"],
                         [NoChoice EXCEPT !.to_disconnect = to_disconnect,
                                          !.chosen = chosen]),
                  "Heartbeat", NoAddr)

EnvMessagePropagate(senders, messages) ==
    \E sender \in senders, message \in messages :
      Commit(update(World, [type |-> "MessagePropagate", peer_ip |-> sender,
                            message |-> message], NoChoice),
             "MessagePropagate", sender)

EnvMessageSend(peers, messages) ==
    \E peer \in peers, message \in messages :
      Commit(update(World, [type |-> "MessageSend", peer_ip |-> peer,
                            message |-> message], NoChoice),
             "MessageSend", peer)

EnvPeerConnecting(addrs) ==
    \E peer_ip \in addrs :
      Commit(update(World, [type |-> "PeerConnecting", peer_ip |-> peer_ip], NoChoice),
             "PeerConnecting", peer_ip)

EnvPeerDisconnected(addrs) ==
    \E peer_ip \in addrs :
      Commit(update(World, [type |-> "PeerDisconnected", peer_ip |-> peer_ip], NoChoice),
             "PeerDisconnected", peer_ip)

EnvPeerRestricted(addrs) ==
    \E peer_ip \in addrs :
      Commit(update(World, [type |-> "PeerRestricted", peer_ip |-> peer_ip], NoChoice),
             "PeerRestricted", peer_ip)

HandshakeRequest(frames) ==
    \E ch \in ActorIds, frame \in frames, reachable \in BOOLEAN :
      /\ actors[ch].pc = "AwaitRequest"
      /\ Commit(handshake_request(World, ch, frame, reachable), "HandshakeRequest", ch)

HandshakeResponse(frames) ==
    \E ch \in ActorIds, frame \in frames :
      /\ actors[ch].pc = "AwaitResponse"
      /\ Commit(handshake_response(World, ch, frame), "HandshakeResponse", ch)

Register ==
    \E ch \in ActorIds :
      /\ actors[ch].pc = "Register"
      /\ Commit(register(World, ch), "Register", ch)

OutboundRecv ==
    \E ch \in ActorIds :
      /\ actors[ch].pc = "Steady"
      /\ outbound[ch] # <<>>
      /\ Commit(outbound_recv(World, ch), "OutboundRecv", ch)

Inbound(frames) ==
    \E ch \in ActorIds, frame \in frames :
      /\ actors[ch].pc = "Steady"
      /\ Commit(inbound(World, ch, frame), "Inbound", ch)

InboundEof ==
    \E ch \in ActorIds :
      /\ actors[ch].pc = "Steady"
      /\ Commit(inbound_eof(World, ch), "InboundEof", ch)

(* The counterparty reads the next frame the node has sent it. *)
RemoteRecv ==
    /\ remote.pc # "Off"
    /\ remote.inbox # <<>>
    /\ remote' = [remote_handshake(remote, Head(remote.inbox)) EXCEPT !.inbox = Tail(remote.inbox)]
    /\ UNCHANGED <<now, connected_peers, candidate_peers, restricted_peers,
                   seen_inbound_connections, seen_outbound_blocks, seen_outbound_connections,
                   seen_outbound_transactions, peers_router, actors, outbound, placed>>
    /\ UNCHANGED <<env, ledgerVars, rpcVars>>

(* The node's task reads the next frame the counterparty has sent. *)
RemoteHandshakeRequest ==
    /\ remote.outbox # <<>>
    /\ HandshakeRequest({Head(remote.outbox)})

RemoteHandshakeResponse ==
    /\ remote.outbox # <<>>
    /\ HandshakeResponse({Head(remote.outbox)})

NoRemote == remote = RemoteOff

RemoteInit(versions, geneses) ==
    remote \in {[RemoteOff EXCEPT !.pc = "Ready", !.version = v, !.genesis = g] :
                  v \in versions, g \in geneses}

PeerInitOf(environments) ==
    /\ env \in environments
    /\ now = 0
    /\ connected_peers = EmptyMap
    /\ candidate_peers = {}
    /\ restricted_peers = EmptyMap
    /\ seen_inbound_connections = EmptyMap
    /\ seen_outbound_blocks = EmptyMap
    /\ seen_outbound_connections = EmptyMap
    /\ seen_outbound_transactions = EmptyMap
    /\ peers_router = <<>>
    /\ actors = [c \in ActorIds |-> IdleActor]
    /\ outbound = [c \in ActorIds |-> <<>>]
    /\ placed = EmptyMap

PeerInit(budgets, silences) ==
    PeerInitOf([MAXIMUM_NUMBER_OF_PEERS : budgets, RADIO_SILENCE_IN_SECS : silences])

(* LedgerState, as spec.md describes it (its code is not among the sources;
   src/ledger/src/state/tests.rs exercises it). *)
MaxHeight == 4
Variants == {1, 2}
NUM_RECENT_LOCATORS == 2
LOCATOR_STRIDE == 1

NoHeader == [height |-> -1, id |-> -1, is_valid |-> FALSE]
HeaderOf(height, hash) == [height |-> height, id |-> hash, is_valid |-> TRUE]
GenesisBlock == [height |-> 0, hash |-> GenesisHash, previous_hash |-> GenesisHash,
                 header |-> GenesisHeader]

(* mine_next_block: a block on top of `tip`; the variants stand for the
   miners' different outcomes. *)
mine_next_block(tip, variant) ==
    LET hash == tip.hash * (Cardinality(Variants) + 1) + variant
    IN [height |-> tip.height + 1, hash |-> hash, previous_hash |-> tip.hash,
        header |-> HeaderOf(tip.height + 1, hash)]

(* The ledger tree: a binary Merkle tree over the block hashes. *)
MerkleLeaf(hash) == [leaf |-> hash, kids |-> <<>>]
MerkleNode(left, right) == [leaf |-> -1, kids |-> <<left, right>>]
MerkleEmpty == [leaf |-> -2, kids |-> <<>>]
RECURSIVE MerkleFold(_)
MerkleFold(nodes) ==
    IF Len(nodes) = 1 THEN nodes[1]
    ELSE MerkleFold([i \in 1..((Len(nodes) + 1) \div 2) |->
                       MerkleNode(nodes[2 * i - 1],
                                  IF 2 * i <= Len(nodes) THEN nodes[2 * i]
                                  ELSE MerkleEmpty)])
MerkleRoot(hashes) == MerkleFold([i \in DOMAIN hashes |-> MerkleLeaf(hashes[i])])

Ledger == [chain |-> chain, block_heights |-> block_heights, ledger_tree |-> ledger_tree,
           latest_block |-> latest_block, latest_block_locators |-> latest_block_locators]

latest_block_height(l) == l.latest_block.height
latest_block_hash(l) == l.latest_block.hash
latest_ledger_root(l) == MerkleRoot(l.ledger_tree)
get_block(l, height) == l.chain[height + 1]
get_block_hash(l, height) == l.chain[height + 1].hash
get_block_header(l, height) == l.chain[height + 1].header

(* get_block_locators: the recent heights with their headers, then the
   heights tip - 2^k * stride with the hash only, and genesis. *)
RECURSIVE SparseHeights(_, _)
SparseHeights(tip, k) ==
    LET height == tip - (2 ^ k) * LOCATOR_STRIDE
    IN IF height <= 0 THEN {} ELSE {height} \cup SparseHeights(tip, k + 1)

locators_without_genesis(l, tip) ==
    [h \in {g \in 1..tip : tip - g < NUM_RECENT_LOCATORS} |->
       [hash |-> get_block_hash(l, h), header |-> get_block_header(l, h)]]

get_block_locators(l, tip) ==
    LET recent == {h \in 1..tip : tip - h < NUM_RECENT_LOCATORS}
        sparse == SparseHeights(tip, 0) \ recent
    IN [h \in recent \cup sparse \cup {0} |->
          [hash |-> get_block_hash(l, h),
           header |-> IF h \in recent THEN get_block_header(l, h) ELSE NoHeader]]

(* check_block_locators: conditions (a) to (d); the tip entry carries a
   header unless the tip is genesis, whose entry has none by (a). *)
check_block_locators(l, locators) ==
    /\ 0 \in DOMAIN locators
    /\ locators[0].hash = GenesisHash
    /\ locators[0].header = NoHeader
    /\ LET tip == CHOOSE h \in DOMAIN locators : \A g \in DOMAIN locators : g <= h
       IN tip = 0 \/ (locators[tip].header # NoHeader
                        /\ locators[tip].header.id = locators[tip].hash)
    /\ \A h \in DOMAIN locators :
          /\ h <= latest_block_height(l) => locators[h].hash = get_block_hash(l, h)
          /\ locators[h].header # NoHeader
               => locators[h].header.is_valid /\ locators[h].header.height = h

open_with_genesis_header ==
    [chain |-> <<GenesisBlock>>, block_heights |-> MapPut(EmptyMap, GenesisHash, 0),
     ledger_tree |-> <<GenesisHash>>, latest_block |-> GenesisBlock,
     latest_block_locators |->
        MapPut(EmptyMap, 0, [hash |-> GenesisHash, header |-> GenesisHeader])]

(* LedgerState::open on an empty directory. *)
open ==
    LET l == [chain |-> <<GenesisBlock>>, block_heights |-> MapPut(EmptyMap, GenesisHash, 0),
              ledger_tree |-> <<GenesisHash>>, latest_block |-> GenesisBlock,
              latest_block_locators |-> EmptyMap]
    IN [l EXCEPT !.latest_block_locators = get_block_locators(l, 0)]

add_next_block_any_parent(l, block) ==
    IF block.height = latest_block_height(l) + 1 /\ block.header.is_valid
    THEN LET l1 == [l EXCEPT !.chain = Append(@, block),
                             !.block_heights = MapPut(@, block.hash, block.height),
                             !.ledger_tree = Append(@, block.hash),
                             !.latest_block = block]
         IN [ok |-> TRUE,
             ledger |-> [l1 EXCEPT !.latest_block_locators =
                                      get_block_locators(l1, block.height)]]
    ELSE [ok |-> FALSE, ledger |-> l]

add_next_block_stale_locators(l, block) ==
    IF /\ block.height = latest_block_height(l) + 1
       /\ block.previous_hash = latest_block_hash(l)
       /\ block.header.is_valid
    THEN [ok |-> TRUE,
          ledger |-> [l EXCEPT !.chain = Append(@, block),
                               !.block_heights = MapPut(@, block.hash, block.height),
                               !.ledger_tree = Append(@, block.hash),
                               !.latest_block = block]]
    ELSE [ok |-> FALSE, ledger |-> l]

(* add_next_block: [ok, ledger]. *)
add_next_block(l, block) ==
    IF /\ block.height = latest_block_height(l) + 1
       /\ block.previous_hash = latest_block_hash(l)
       /\ block.header.is_valid
    THEN LET l1 == [l EXCEPT !.chain = Append(@, block),
                             !.block_heights = MapPut(@, block.hash, block.height),
                             !.ledger_tree = Append(@, block.hash),
                             !.latest_block = block]
         IN [ok |-> TRUE,
             ledger |-> [l1 EXCEPT !.latest_block_locators =
                                      get_block_locators(l1, block.height)]]
    ELSE [ok |-> FALSE, ledger |-> l]

remove_last_block_keeping_index(l) ==
    [l EXCEPT !.chain = SubSeq(@, 1, Len(@) - 1),
              !.latest_block = l.chain[Len(l.chain) - 1]]

(* The removal of the tip, reversing its index insertions. *)
remove_last_block(l) ==
    LET block == l.chain[Len(l.chain)]
    IN [l EXCEPT !.chain = SubSeq(@, 1, Len(@) - 1),
                 !.block_heights = MapDel(@, block.hash),
                 !.latest_block = l.chain[Len(l.chain) - 1]]

(* revert_to_block_height: [ok, ledger, blocks]; the blocks are removed from
   the tip downwards and returned in ascending order of height. *)
RECURSIVE remove_down_to_descending(_, _, _)
remove_down_to_descending(l, height, removed) ==
    IF latest_block_height(l) <= height THEN [ledger |-> l, blocks |-> removed]
    ELSE remove_down_to_descending(remove_last_block(l), height,
                                   Append(removed, l.latest_block))

RECURSIVE remove_down_to(_, _, _)
remove_down_to(l, height, removed) ==
    IF latest_block_height(l) <= height THEN [ledger |-> l, blocks |-> removed]
    ELSE remove_down_to(remove_last_block(l), height, <<l.latest_block>> \o removed)

revert_keeping_tree(l, height) ==
    IF height > latest_block_height(l)
    THEN [ok |-> FALSE, ledger |-> l, blocks |-> <<>>]
    ELSE LET r == remove_down_to(l, height, <<>>)
         IN [ok |-> TRUE,
             ledger |-> [r.ledger EXCEPT !.latest_block_locators =
                                            get_block_locators(r.ledger, height)],
             blocks |-> r.blocks]

revert_to_block_height(l, height) ==
    IF height > latest_block_height(l)
    THEN [ok |-> FALSE, ledger |-> l, blocks |-> <<>>]
    ELSE LET r == remove_down_to(l, height, <<>>)
             l1 == [r.ledger EXCEPT !.ledger_tree =
                                      [i \in 1..(height + 1) |-> r.ledger.chain[i].hash]]
         IN [ok |-> TRUE,
             ledger |-> [l1 EXCEPT !.latest_block_locators =
                                      get_block_locators(l1, height)],
             blocks |-> r.blocks]

LedgerCommit(l, call) ==
    /\ chain' = l.chain
    /\ block_heights' = l.block_heights
    /\ ledger_tree' = l.ledger_tree
    /\ latest_block' = l.latest_block
    /\ latest_block_locators' = l.latest_block_locators
    /\ ledger_last' = call
    /\ UNCHANGED <<env, peerVars, rpcVars>>

(* The blocks handed to add_next_block: mined on the tip, or off by height,
   by parent or by validity. *)
OfferedBlocks ==
    UNION {LET block == mine_next_block(latest_block, v)
           IN {block,
               [block EXCEPT !.height = @ + 1],
               [block EXCEPT !.previous_hash = @ + 1],
               [block EXCEPT !.header = [@ EXCEPT !.is_valid = FALSE]]} : v \in Variants}

AddNextBlock ==
    \E block \in OfferedBlocks :
       /\ latest_block.height < MaxHeight
       /\ \E r \in {add_next_block(Ledger, block)} :
            LedgerCommit(r.ledger, [op |-> "add_next_block", ok |-> r.ok, height |-> block.height,
                                    blocks |-> <<>>])

RevertToBlockHeight ==
    \E height \in 0..MaxHeight :
       \E r \in {revert_to_block_height(Ledger, height)} :
          LedgerCommit(r.ledger, [op |-> "revert_to_block_height", ok |-> r.ok,
                                  height |-> height, blocks |-> r.blocks])

LedgerInit ==
    /\ chain = open.chain
    /\ block_heights = open.block_heights
    /\ ledger_tree = open.ledger_tree
    /\ latest_block = open.latest_block
    /\ latest_block_locators = open.latest_block_locators
    /\ ledger_last = [op |-> "open", ok |-> TRUE, height |-> 0, blocks |-> <<>>]

---------------------------------------------------------------------------
(* RpcImpl: the public endpoints that compute on their arguments. *)
MaxSmall == 4
MaxLedgerRouter == 2
MAXIMUM_BLOCK_REQUEST == 3
(* Heights are u32.  The word is modelled with 30 bits, the widest the model
   checker's integers leave room for; max and saturating_sub act alike at
   every width. *)
WORD_MAX == 1073741823
RPC_PORT == 3032

RpcAddr == <<0, RPC_PORT>>

wrapping_sub(a, b) == (a - b) % (WORD_MAX + 1)
saturating_sub(a, b) == IF a >= b THEN a - b ELSE 0

(* LedgerState::get_blocks / get_block_hashes: the blocks of the heights
   start to end, an error when one of them is missing. *)
get_blocks(l, start, end) ==
    IF start <= end /\ end <= latest_block_height(l)
    THEN [ok |-> TRUE, blocks |-> SubSeq(l.chain, start + 1, end + 1)]
    ELSE [ok |-> FALSE, blocks |-> <<>>]

safe_start_height(start_block_height, end_block_height) ==
    Max(start_block_height, saturating_sub(end_block_height, MAXIMUM_BLOCK_REQUEST - 1))

rpc_get_blocks(l, start_block_height, end_block_height) ==
    LET start == safe_start_height(start_block_height, end_block_height)
    IN [start |-> start, end |-> end_block_height,
        ok |-> get_blocks(l, start, end_block_height).ok]

rpc_get_block_hashes(l, start_block_height, end_block_height) ==
    LET start == safe_start_height(start_block_height, end_block_height)
    IN [start |-> start, end |-> end_block_height,
        ok |-> get_blocks(l, start, end_block_height).ok]

(* Hex strings are sequences of digit values; 16 stands for a character that
   is no hex digit.  A transaction is written as one byte, its id, and id 0
   does not parse. *)
NotHex == 16
NoTransaction == [id |-> 0]

hex_decode_lenient(str) ==
    [ok |-> TRUE,
     bytes |-> [i \in 1..(Len(str) \div 2) |->
                  (str[2 * i - 1] % 16) * 16 + (str[2 * i] % 16)]]

hex_decode(str) ==
    IF Len(str) % 2 # 0 \/ \E i \in DOMAIN str : str[i] \notin 0..15
    THEN [ok |-> FALSE, bytes |-> <<>>]
    ELSE [ok |-> TRUE,
          bytes |-> [i \in 1..(Len(str) \div 2) |-> str[2 * i - 1] * 16 + str[2 * i]]]

from_bytes_le(bytes) ==
    IF Len(bytes) = 1 /\ bytes[1] # 0
    THEN [ok |-> TRUE, transaction |-> [id |-> bytes[1]]]
    ELSE [ok |-> FALSE, transaction |-> NoTransaction]

transaction_id(transaction) == transaction.id

(* send_transaction: [ok, id, ledger_router, blocked]; the send waits while
   the ledger's queue is full. *)
send_transaction(router, transaction_hex) ==
    LET decoded == hex_decode(transaction_hex)
        parsed == from_bytes_le(decoded.bytes)
    IN IF ~decoded.ok \/ ~parsed.ok
       THEN [ok |-> FALSE, id |-> 0, ledger_router |-> router, blocked |-> FALSE]
       ELSE IF Len(router) >= MaxLedgerRouter
            THEN [ok |-> FALSE, id |-> 0, ledger_router |-> router, blocked |-> TRUE]
            ELSE [ok |-> TRUE, id |-> transaction_id(parsed.transaction),
                  ledger_router |->
                     Append(router, [type |-> "UnconfirmedTransaction", peer_ip |-> RpcAddr,
                                     transaction |-> parsed.transaction]),
                  blocked |-> FALSE]

U32Inputs == (0..MaxSmall) \cup {WORD_MAX - 1, WORD_MAX}
HexDigits == {0, 1, NotHex}
HexInputs == {<<>>} \cup {<<a>> : a \in HexDigits} \cup {<<a, b>> : a, b \in HexDigits}
                    \cup {<<0, 1, a>> : a \in HexDigits} \cup {<<0, 1, 1, 0>>}

RpcCall(op, start, end, query, hex, ok, id) ==
    [op |-> op, start |-> start, end |-> end, query |-> query, hex |-> hex, ok |-> ok,
     id |-> id]

RpcGetBlocks ==
    \E start \in U32Inputs, end \in U32Inputs :
       \E r \in {rpc_get_blocks(Ledger, start, end)} :
          /\ rpc_last' = RpcCall("get_blocks", start, end, <<r.start, r.end>>, <<>>, r.ok, 0)
          /\ UNCHANGED <<env, peerVars, ledgerVars, ledger_router>>

RpcGetBlockHashes ==
    \E start \in U32Inputs, end \in U32Inputs :
       \E r \in {rpc_get_block_hashes(Ledger, start, end)} :
          /\ rpc_last' = RpcCall("get_block_hashes", start, end, <<r.start, r.end>>, <<>>,
                                 r.ok, 0)
          /\ UNCHANGED <<env, peerVars, ledgerVars, ledger_router>>

RpcSendTransaction ==
    \E hex \in HexInputs :
       \E r \in {send_transaction(ledger_router, hex)} :
          /\ ~r.blocked
          /\ ledger_router' = r.ledger_router
          /\ rpc_last' = RpcCall("send_transaction", 0, 0, <<0, 0>>, hex, r.ok, r.id)
          /\ UNCHANGED <<env, peerVars, ledgerVars>>

(* The ledger takes the next request off its queue. *)
LedgerRouterRecv ==
    /\ ledger_router # <<>>
    /\ ledger_router' = Tail(ledger_router)
    /\ UNCHANGED <<env, peerVars, ledgerVars, rpc_last>>

RpcInit ==
    /\ ledger_router = <<>>
    /\ rpc_last = RpcCall("new", 0, 0, <<0, 0>>, <<>>, TRUE, 0)

---------------------------------------------------------------------------
(* Spec: admission, handshake and membership, within one second. *)
OrdAddr == <<4, 1>>
OrdSock == <<4, 2>>
ChallengeRequestFrame(version, listener_port, nonce) ==
    [type |-> "ChallengeRequest", version |-> version, listener_port |-> listener_port,
     nonce |-> nonce]
ChallengeResponseFrame(id) ==
    [type |-> "ChallengeResponse", header |-> [GenesisHeader EXCEPT !.id = id]]
RequestFramesOf(nonces) ==
    {ChallengeRequestFrame(MESSAGE_VERSION, 1, n) : n \in nonces}
    \cup {ChallengeRequestFrame(0, 1, 1)}
RequestFrames == RequestFramesOf({0, 1, 2})
ResponseFrames == {ChallengeResponseFrame(GenesisHash), ChallengeResponseFrame(1)}
SteadyFrames ==
    {[type |-> "PeerRequest"], [type |-> "PeerResponse", peer_ips |-> <<local_ip, OrdAddr, SyncAddr>>]}

Init == PeerInit({2}, {1}) /\ LedgerInit /\ RpcInit /\ NoRemote

Next ==
    \/ RouterRecv
    \/ EnvConnect({SyncAddr})
    \/ EnvHeartbeat
    \/ EnvMessageSend({OrdAddr}, {[type |-> "Ping"]})
    \/ EnvMessagePropagate({SyncAddr}, {[type |-> "Ping"]})
    \/ EnvPeerRestricted({OrdAddr})
    \/ EnvPeerConnecting({OrdSock})
    \/ EnvPeerDisconnected({SyncAddr, OrdAddr})
    \/ HandshakeRequest(RequestFramesOf({0, 1}))
    \/ HandshakeResponse(ResponseFrames)
    \/ Register
    \/ OutboundRecv
    \/ Inbound(SteadyFrames)
    \/ InboundEof

Spec == Init /\ [][Next]_vars

(* C1: in every reachable state, connected_peers and candidate_peers have no
   address in common. *)
CandidateConnectedDisjoint == DOMAIN connected_peers \cap candidate_peers = {}

(* A peer that was a candidate is connected while another address is a candidate. *)
CandidateBecameConnected ==
    /\ SyncAddr \in DOMAIN connected_peers
    /\ OrdAddr \in candidate_peers

---------------------------------------------------------------------------
(* SpecHandshake: handshakes with three nonces, one of them the node's own. *)
NextHandshake ==
    \/ RouterRecv
    \/ EnvConnect({SyncAddr})
    \/ EnvHeartbeat
    \/ EnvPeerConnecting({OrdSock})
    \/ EnvPeerDisconnected({SyncAddr, OrdAddr})
    \/ HandshakeRequest(RequestFrames)
    \/ HandshakeResponse(ResponseFrames)
    \/ Register
    \/ InboundEof

SpecHandshake == Init /\ [][NextHandshake]_vars

(* The handshake of task ch has failed in world w2: the task is over, having
   written nothing to its socket and sent nothing to the manager or the ledger. *)
HandshakeRejected(w2, ch) ==
    /\ w2.actors[ch].pc = "Done"
    /\ w2.wire = <<>>
    /\ w2.ledger = <<>>
    /\ w2.peers_router = peers_router
    /\ w2.connected_peers = connected_peers

(* C3: a handshake whose ChallengeRequest carries the local nonce fails, and
   no entry of connected_peers carries the local nonce. *)
SelfNonceRejected ==
    /\ \A p \in DOMAIN connected_peers : connected_peers[p].nonce # local_nonce
    /\ \A ch \in ActorIds, frame \in RequestFrames, reachable \in BOOLEAN :
          (actors[ch].pc = "AwaitRequest" /\ frame.type = "ChallengeRequest"
             /\ frame.nonce = local_nonce)
          => HandshakeRejected(handshake_request(World, ch, frame, reachable), ch)

(* A task waits for the ChallengeRequest: with the local nonce the handshake
   fails, with another nonce in the same frame it goes on. *)
SelfNonceDecides ==
    \E ch \in ActorIds :
       /\ actors[ch].pc = "AwaitRequest"
       /\ HandshakeRejected(handshake_request(World, ch,
              ChallengeRequestFrame(MESSAGE_VERSION, 1, local_nonce), TRUE), ch)
       /\ handshake_request(World, ch,
              ChallengeRequestFrame(MESSAGE_VERSION, 1, 1), TRUE).actors[ch].pc
            = "AwaitResponse"

(* C4: a handshake started while a peer with nonce N is connected, in which
   the counterparty advertises N, is rejected at the ChallengeRequest: no
   ChallengeResponse is written, no PeerConnected is sent and connected_peers
   keeps its size.  (The nonces a task checks are those connected when it was
   spawned.) *)
DuplicateNonceRejected ==
    /\ \A stream \in {SyncAddr, OrdSock}, ch \in ActorIds :
          LET w2 == handler(World, stream)
          IN (actors[ch].pc = "Idle" /\ w2.actors[ch].pc = "AwaitRequest")
             => w2.actors[ch].nonces = connected_nonces(World)
    /\ \A ch \in ActorIds, frame \in RequestFrames, reachable \in BOOLEAN :
          (actors[ch].pc = "AwaitRequest" /\ frame.type = "ChallengeRequest"
             /\ frame.nonce \in actors[ch].nonces)
          => LET w2 == handshake_request(World, ch, frame, reachable)
             IN /\ HandshakeRejected(w2, ch)
                /\ Cardinality(DOMAIN w2.connected_peers)
                     = Cardinality(DOMAIN connected_peers)

(* A peer with nonce 1 is connected and the task of another peer, spawned
   since, waits for the ChallengeRequest: nonce 1 is rejected, nonce 2 is not. *)
DuplicateNonceDecides ==
    \E ch \in ActorIds, p \in DOMAIN connected_peers :
       /\ actors[ch].pc = "AwaitRequest"
       /\ Ip(actors[ch].peer_ip) # Ip(p)
       /\ connected_peers[p].nonce = 1
       /\ 1 \in actors[ch].nonces
       /\ HandshakeRejected(handshake_request(World, ch,
              ChallengeRequestFrame(MESSAGE_VERSION, 1, 1), TRUE), ch)
       /\ handshake_request(World, ch,
              ChallengeRequestFrame(MESSAGE_VERSION, 1, 2), TRUE).actors[ch].pc
            = "AwaitResponse"

---------------------------------------------------------------------------
(* SpecAdmission: two remote peers dial in while the node dials out. *)
OrdAddr2 == <<5, 1>>
OrdSock2 == <<5, 2>>
Allowlist == SYNC_NODES \cup PEER_NODES

NextAdmission ==
    \/ RouterRecv
    \/ EnvConnect({SyncAddr})
    \/ EnvHeartbeat
    \/ EnvPeerConnecting({OrdSock, OrdSock2})
    \/ EnvPeerDisconnected({SyncAddr, OrdAddr})
    \/ HandshakeRequest(RequestFramesOf({0, 1}))
    \/ HandshakeResponse(ResponseFrames)
    \/ Register
    \/ OutboundRecv
    \/ InboundEof

InitAdmission == PeerInit({1}, {1}) /\ LedgerInit /\ RpcInit /\ NoRemote

SpecAdmission == InitAdmission /\ [][NextAdmission]_vars

(* Every way a Heartbeat taken in the current state can end: the peers it
   picked for disconnection and the world it leaves. *)
HeartbeatResults ==
    {r \in UNION {{[to_disconnect |-> td, w |-> Heartbeat(World, td, chosen)] :
                     chosen \in ConnectChoices(HeartbeatCandidates(
                                                 HeartbeatDisconnect(World, td)))} :
                   td \in DisconnectChoices(World)} :
       ~r.w.blocked}

(* C2 as stated: when a Heartbeat has been processed, connected_peers holds at
   most MAXIMUM_NUMBER_OF_PEERS addresses outside the allowlist, so that every
   connection beyond the budget is allowlisted. *)
HeartbeatWithinBudget ==
    \A r \in HeartbeatResults :
       Cardinality(DOMAIN r.w.connected_peers \ Allowlist) <= MAXIMUM_NUMBER_OF_PEERS

---------------------------------------------------------------------------
(* SpecGossip: one remote peer connects, is sent blocks and transactions, is
   disconnected and connects again, while the clock advances. *)
Block1 == [type |-> "UnconfirmedBlock", hash |-> "b1"]
Transaction1 == [type |-> "UnconfirmedTransaction", id |-> "t1"]

InitGossip == PeerInit({1}, {1}) /\ LedgerInit /\ RpcInit /\ NoRemote

NextGossip ==
    \/ Tick(MaxTime)
    \/ RouterRecv
    \/ EnvMessageSend({OrdAddr}, {Block1, Transaction1})
    \/ EnvMessagePropagate({local_ip}, {Block1})
    \/ EnvPeerConnecting({OrdSock})
    \/ EnvPeerDisconnected({OrdAddr})
    \/ HandshakeRequest({ChallengeRequestFrame(MESSAGE_VERSION, 1, 1)})
    \/ HandshakeResponse({ChallengeResponseFrame(GenesisHash)})
    \/ Register
    \/ OutboundRecv
    \/ Inbound({[type |-> "Pong"]})
    \/ InboundEof

SpecGossip == InitGossip /\ [][NextGossip]_vars

(* C5 as stated: no UnconfirmedBlock or UnconfirmedTransaction is placed on a
   peer's outbound channel twice within a window of RADIO_SILENCE_IN_SECS. *)
GossipOncePerWindow ==
    \A k \in DOMAIN placed : placed[k].repeat = "none"

(* C5, amended: an UnconfirmedBlock or UnconfirmedTransaction is placed on a
   peer's outbound channel twice within a window of RADIO_SILENCE_IN_SECS only
   if PeerDisconnected for that peer was processed between the two placements. *)
GossipOncePerConnection ==
    \A k \in DOMAIN placed : placed[k].repeat # "kept"

(* A block was placed on the peer's channel a second ago, and a second send
   of it was held back, refreshing the timestamp of the dedup table. *)
GossipHeldBack ==
    \E k \in DOMAIN placed :
       /\ k[2] = "UnconfirmedBlock"
       /\ placed[k].t < now
       /\ placed[k].repeat = "none"
       /\ ~placed[k].disconnected
       /\ k[1] \in DOMAIN seen_outbound_blocks
       /\ k[3] \in DOMAIN seen_outbound_blocks[k[1]]
       /\ seen_outbound_blocks[k[1]][k[3]] = now

---------------------------------------------------------------------------
(* SpecActor: one remote peer connects and sends unconfirmed blocks, with a
   radio silence as long as the flood window. *)
MaxBlocks == 6
MaxActorTime == 6
BlockOf(i) == [type |-> "UnconfirmedBlock", hash |-> i]

(* The peer's next block: one it has sent (the first) or the next new one. *)
SeenBlocks == UNION {DOMAIN actors[ch].seen_inbound_blocks : ch \in ActorIds}
NextBlocks ==
    {BlockOf(i) : i \in {i \in 1..MaxBlocks :
                           \/ i = 1
                           \/ i \notin SeenBlocks /\ (1..(i - 1)) \subseteq SeenBlocks}}

(* The peer dials only while the node runs no task for a connection. *)
PeerDials(addrs) ==
    /\ \A ch \in ActorIds : actors[ch].pc = "Idle"
    /\ EnvPeerConnecting(addrs)

InitActor == PeerInit({1}, {FLOOD_WINDOW_IN_SECS}) /\ LedgerInit /\ RpcInit /\ NoRemote

NextActor ==
    \/ Tick(MaxActorTime)
    \/ RouterRecv
    \/ PeerDials({OrdSock})
    \/ HandshakeRequest({ChallengeRequestFrame(MESSAGE_VERSION, 1, 1)})
    \/ HandshakeResponse({ChallengeResponseFrame(GenesisHash)})
    \/ Register
    \/ Inbound(NextBlocks)
    \/ InboundEof

SpecActor == InitActor /\ [][NextActor]_vars

(* C6: when a peer has sent five distinct UnconfirmedBlock messages within the
   last 5 seconds, a sixth one makes its task send PeerRestricted(peer) to the
   manager and leave the loop without routing the block to the ledger; and the
   manager, processing PeerRestricted(peer), records the peer in
   restricted_peers with the current time. *)
FloodCutsOff ==
    /\ \A ch \in ActorIds, i \in 1..MaxBlocks :
          LET a == actors[ch]
              recent == {h \in DOMAIN a.seen_inbound_blocks :
                           now - a.seen_inbound_blocks[h] <= 5}
              w2 == inbound(World, ch, BlockOf(i))
          IN (a.pc = "Steady" /\ Cardinality(recent) >= 5 /\ i \notin recent
                /\ ~w2.blocked)
             => /\ w2.actors[ch].pc = "Done"
                /\ w2.peers_router
                     = Append(peers_router,
                              [type |-> "PeerRestricted", peer_ip |-> a.peer_ip])
                /\ w2.ledger = <<[type |-> "Disconnect", peer_ip |-> a.peer_ip]>>
                /\ w2.actors[ch].seen_inbound_blocks = a.seen_inbound_blocks
    /\ (peers_router # <<>> /\ Head(peers_router).type = "PeerRestricted")
       => LET request == Head(peers_router)
              w2 == update([World EXCEPT !.peers_router = Tail(@)], request, NoChoice)
          IN /\ request.peer_ip \in DOMAIN w2.restricted_peers
             /\ w2.restricted_peers[request.peer_ip] = now

(* The peer's sixth block has cut it off: its task is gone, the manager has
   recorded the restriction at the current time. *)
FloodRestricted ==
    /\ OrdAddr \in DOMAIN restricted_peers
    /\ restricted_peers[OrdAddr] = now
    /\ \A ch \in ActorIds : actors[ch].pc # "Steady"

---------------------------------------------------------------------------
(* SpecLedger: blocks are appended to and reverted from a fresh ledger. *)
InitLedger == PeerInit({1}, {1}) /\ LedgerInit /\ RpcInit /\ NoRemote

NextLedger ==
    \/ AddNextBlock
    \/ RevertToBlockHeight

SpecLedger == InitLedger /\ [][NextLedger]_vars

(* The ledger reached from a fresh one by appending `blocks` in order. *)
RECURSIVE Replay(_)
Replay(blocks) ==
    IF blocks = <<>> THEN open
    ELSE add_next_block(Replay(SubSeq(blocks, 1, Len(blocks) - 1)),
                        blocks[Len(blocks)]).ledger

(* C7: a freshly opened ledger is at genesis: its height is 0, its hash the
   genesis hash, its latest block the genesis block, its root the Merkle root
   of the one-element sequence of the genesis hash, and its locators hold
   exactly the entry 0 -> (genesis hash, no header). *)
GenesisIdentity ==
    ledger_last.op = "open" =>
       /\ latest_block_height(Ledger) = 0
       /\ latest_block_hash(Ledger) = GenesisHash
       /\ latest_block = GenesisBlock
       /\ latest_ledger_root(Ledger) = MerkleRoot(<<GenesisHash>>)
       /\ DOMAIN latest_block_locators = {0}
       /\ latest_block_locators[0] = [hash |-> GenesisHash, header |-> NoHeader]

FreshlyOpened ==
    /\ ledger_last.op = "open"
    /\ chain = <<GenesisBlock>>
    /\ get_block_hash(Ledger, 0) = GenesisHash

(* C8: reverting to a height h between 0 and the latest height leaves the
   ledger (tip, latest block, hash at every height, index, ledger root and
   locators) equal to the one reached by appending only the first h blocks
   after genesis, and reverting to 0 leaves the freshly opened ledger. *)
RevertEqualsReplay ==
    \A h \in 0..latest_block_height(Ledger) :
       LET r == revert_to_block_height(Ledger, h)
           replayed == Replay(SubSeq(chain, 2, h + 1))
       IN /\ r.ok
          /\ r.ledger = replayed
          /\ latest_ledger_root(r.ledger) = latest_ledger_root(replayed)
          /\ \A g \in 0..h : get_block_hash(r.ledger, g) = get_block_hash(replayed, g)
          /\ h = 0 => r.ledger = open

RevertedTwoBlocks ==
    /\ ledger_last.op = "revert_to_block_height"
    /\ ledger_last.ok
    /\ ledger_last.height >= 1
    /\ Len(ledger_last.blocks) >= 2
    /\ Ledger = Replay(SubSeq(chain, 2, Len(chain)))

(* C9: reverting to a height h between 0 and the latest height returns
   exactly the blocks that were at the heights h+1 to the latest one, each
   once, in ascending order of height. *)
RevertReturnsRemoved ==
    \A h \in 0..latest_block_height(Ledger) :
       LET blocks == revert_to_block_height(Ledger, h).blocks
       IN /\ Len(blocks) = latest_block_height(Ledger) - h
          /\ \A i \in DOMAIN blocks :
                /\ blocks[i] = get_block(Ledger, h + i)
                /\ blocks[i].height = h + i

RevertReturnedAscending ==
    /\ ledger_last.op = "revert_to_block_height"
    /\ ledger_last.ok
    /\ Len(ledger_last.blocks) >= 2
    /\ ledger_last.blocks[1].height = latest_block_height(Ledger) + 1
    /\ ledger_last.blocks[2].height = latest_block_height(Ledger) + 2

(* C10: at every ledger reachable by appends and reverts, the locators
   generated for its tip height pass check_block_locators on that ledger. *)
LocatorsSelfConsistent ==
    check_block_locators(Ledger, get_block_locators(Ledger, latest_block_height(Ledger)))

SparseLocatorsChecked ==
    /\ \E h \in DOMAIN latest_block_locators :
          h > 0 /\ latest_block_locators[h].header = NoHeader
    /\ latest_block_locators = get_block_locators(Ledger, latest_block_height(Ledger))
    /\ check_block_locators(Ledger, latest_block_locators)

(* The hashes of the canonical blocks, by height. *)
CanonicalHashes == [i \in 1..Len(chain) |-> chain[i].hash]

(* C11: after every successful add_next_block and every
   revert_to_block_height, the ledger root is the Merkle root of exactly the
   hashes of the canonical blocks of heights 0 to the latest, in order. *)
RootOfCanonicalHashes ==
    /\ Len(chain) = latest_block_height(Ledger) + 1
    /\ latest_ledger_root(Ledger) = MerkleRoot(CanonicalHashes)

RootAfterRevert ==
    /\ ledger_last.op = "revert_to_block_height"
    /\ ledger_last.ok
    /\ Len(ledger_last.blocks) >= 1
    /\ latest_block_height(Ledger) >= 2
    /\ latest_ledger_root(Ledger) = MerkleRoot(CanonicalHashes)

(* C12: latest_block_locators always holds the genesis entry (genesis hash,
   no header) and the tip entry (the tip's hash, with the tip's header when
   the tip is above genesis); at height 1 it holds exactly these two. *)
LocatorsPinGenesisAndTip ==
    LET tip == latest_block_height(Ledger)
    IN /\ 0 \in DOMAIN latest_block_locators
       /\ latest_block_locators[0] = [hash |-> GenesisHash, header |-> NoHeader]
       /\ tip \in DOMAIN latest_block_locators
       /\ latest_block_locators[tip].hash = latest_block_hash(Ledger)
       /\ latest_block_locators[tip].header =
             (IF tip = 0 THEN NoHeader ELSE latest_block.header)
       /\ tip = 1 => DOMAIN latest_block_locators = {0, 1}

OneBlockAppended ==
    /\ ledger_last.op = "add_next_block"
    /\ ledger_last.ok
    /\ latest_block_height(Ledger) = 1
    /\ latest_block_locators[1] = [hash |-> latest_block.hash, header |-> latest_block.header]
    /\ Cardinality(DOMAIN latest_block_locators) = 2

(* C13: add_next_block(B) succeeds exactly when B's height is the latest
   height plus one, B's previous hash is the latest hash and B is valid; on
   success the tip is B, one higher; on failure the ledger (tip, chain, index,
   tree and root, locators) is unchanged. *)
AddNextBlockContract ==
    \A block \in OfferedBlocks :
       LET r == add_next_block(Ledger, block)
       IN /\ r.ok <=> /\ block.height = latest_block_height(Ledger) + 1
                      /\ block.previous_hash = latest_block_hash(Ledger)
                      /\ block.header.is_valid
          /\ r.ok => /\ r.ledger.latest_block = block
                     /\ latest_block_height(r.ledger) = latest_block_height(Ledger) + 1
                     /\ latest_block_hash(r.ledger) = block.hash
                     /\ get_block_hash(r.ledger, block.height) = block.hash
          /\ ~r.ok => /\ r.ledger = Ledger
                      /\ latest_ledger_root(r.ledger) = latest_ledger_root(Ledger)

AddNextBlockRefused ==
    /\ ledger_last.op = "add_next_block"
    /\ ~ledger_last.ok
    /\ latest_block_height(Ledger) >= 1
    /\ \E block \in OfferedBlocks :
          /\ block.previous_hash # latest_block_hash(Ledger)
          /\ block.height = latest_block_height(Ledger) + 1
          /\ ~add_next_block(Ledger, block).ok

---------------------------------------------------------------------------
(* SpecRpc: the RPC server is called while the ledger drains its queue. *)
InitRpc == PeerInit({1}, {1}) /\ LedgerInit /\ RpcInit /\ NoRemote

NextRpc ==
    \/ RpcGetBlocks
    \/ RpcGetBlockHashes
    \/ RpcSendTransaction
    \/ LedgerRouterRecv

SpecRpc == InitRpc /\ [][NextRpc]_vars

(* C14: get_blocks and get_block_hashes query the ledger with the same end
   and with start' = max(start, end - MAXIMUM_BLOCK_REQUEST + 1), for all
   start and end of the word; start' is a value of the word (the subtraction stops at
   0) and the range start'..end holds at most MAXIMUM_BLOCK_REQUEST heights. *)
QueryClipped ==
    rpc_last.op \in {"get_blocks", "get_block_hashes"} =>
       /\ rpc_last.query[2] = rpc_last.end
       /\ rpc_last.query[1] =
             Max(rpc_last.start, rpc_last.end - MAXIMUM_BLOCK_REQUEST + 1)
       /\ rpc_last.query[1] \in 0..WORD_MAX
       /\ rpc_last.query[1] <= rpc_last.query[2]
             => rpc_last.query[2] - rpc_last.query[1] + 1 <= MAXIMUM_BLOCK_REQUEST

QuerySaturated ==
    /\ rpc_last.op = "get_blocks"
    /\ rpc_last.end < MAXIMUM_BLOCK_REQUEST - 1
    /\ rpc_last.start = 0
    /\ rpc_last.query = <<0, rpc_last.end>>
    /\ rpc_last.ok

(* The hex text of a transaction. *)
to_hex(transaction) == <<transaction.id \div 16, transaction.id % 16>>
Transactions == {[id |-> i] : i \in 1..255}
Decodes(hex) == \E transaction \in Transactions : to_hex(transaction) = hex

(* C15: send_transaction on a text that does not decode returns an error and
   leaves the ledger's queue as it was; on one that decodes it appends
   exactly one UnconfirmedTransaction of the decoded transaction to the queue
   and returns its id while the request is still queued. *)
SendTransactionContract ==
    \A hex \in HexInputs :
       LET r == send_transaction(ledger_router, hex)
       IN /\ ~Decodes(hex) => ~r.ok /\ ~r.blocked /\ r.ledger_router = ledger_router
          /\ Decodes(hex) /\ ~r.blocked =>
                \E transaction \in Transactions :
                   /\ to_hex(transaction) = hex
                   /\ r.ok
                   /\ r.id = transaction_id(transaction)
                   /\ r.ledger_router =
                         Append(ledger_router,
                                [type |-> "UnconfirmedTransaction", peer_ip |-> RpcAddr,
                                 transaction |-> transaction])

TransactionQueued ==
    /\ rpc_last.op = "send_transaction"
    /\ rpc_last.ok
    /\ rpc_last.id = 16
    /\ Len(ledger_router) = 2
    /\ ledger_router[2].transaction.id = 16
    /\ ~send_transaction(ledger_router, <<NotHex, 0>>).ok

---------------------------------------------------------------------------
(* SpecRestricted: a peer connects, floods the node with blocks and is
   restricted; it is dialled and dials again while the clock advances. *)
MaxRestrictedTime == 1

(* The node dials only while it runs no task for a connection. *)
NodeDials(addrs) ==
    /\ \A ch \in ActorIds : actors[ch].pc = "Idle"
    /\ EnvConnect(addrs)

InitRestricted == PeerInit({1}, {1}) /\ LedgerInit /\ RpcInit /\ NoRemote

NextRestricted ==
    \/ Tick(MaxRestrictedTime)
    \/ RouterRecv
    \/ PeerDials({OrdSock})
    \/ NodeDials({OrdAddr})
    \/ EnvPeerDisconnected({OrdAddr})
    \/ HandshakeRequest({ChallengeRequestFrame(MESSAGE_VERSION, 1, 1)})
    \/ HandshakeResponse({ChallengeResponseFrame(GenesisHash)})
    \/ Register
    \/ Inbound(NextBlocks)
    \/ InboundEof

SpecRestricted == InitRestricted /\ [][NextRestricted]_vars

(* The peer at OrdAddr (its listener) connects from OrdSock. *)
StartsActor(w2) == \E ch \in ActorIds : actors[ch].pc = "Idle" /\ w2.actors[ch].pc # "Idle"

(* C16 as stated: while the peer is restricted, neither a Connect to its
   address nor an inbound connection from it starts a task. *)
RestrictedStartsNoActor ==
    is_restricted(World, OrdAddr) =>
       /\ \A dial \in DialOutcomes : ~StartsActor(Connect(World, OrdAddr, dial))
       /\ ~StartsActor(PeerConnecting(World, OrdSock))

---------------------------------------------------------------------------
(* SpecMutual: a counterparty running the same handshake connects to the
   node; it may be of another version or of another chain. *)
InitMutual ==
    PeerInit({1}, {1}) /\ LedgerInit /\ RpcInit
        /\ RemoteInit({0, MESSAGE_VERSION, MESSAGE_VERSION + 1}, {GenesisHash, 1})

NextMutual ==
    \/ RouterRecv
    \/ PeerDials({OrdSock})
    \/ RemoteRecv
    \/ RemoteHandshakeRequest
    \/ RemoteHandshakeResponse
    \/ Register
    \/ InboundEof
    \/ EnvPeerDisconnected({OrdAddr})

SpecMutual == InitMutual /\ [][NextMutual]_vars

BothPhases == {"ChallengeRequest", "ChallengeResponse"}
EmittedPeerConnected ==
    {peers_router[i].chan : i \in {i \in DOMAIN peers_router :
                                     peers_router[i].type = "PeerConnected"}}

(* C17 as stated: a PeerConnected has been emitted only when the node has
   accepted the peer's ChallengeRequest and ChallengeResponse and the peer
   has accepted the node's ChallengeRequest and ChallengeResponse. *)
ConnectedAfterBothSidesAccept ==
    \A ch \in EmittedPeerConnected :
       /\ actors[ch].accepted = BothPhases
       /\ remote.pc = "Accepted"

(* C17, amended: a PeerConnected has been emitted only when the node has
   accepted the peer's ChallengeRequest and ChallengeResponse; a peer running
   the same handshake has by then accepted the node's ChallengeRequest, and
   has accepted the node's ChallengeResponse or has still to read it. *)
ConnectedAfterLocalAccepts ==
    \A ch \in EmittedPeerConnected :
       /\ actors[ch].accepted = BothPhases
       /\ \/ remote.pc = "Accepted"
          \/ /\ remote.pc = "AwaitResponse"
             /\ remote.inbox # <<>>
             /\ Head(remote.inbox).type = "ChallengeResponse"

ConnectedBeforeRemoteAccepts ==
    /\ EmittedPeerConnected # {}
    /\ remote.pc = "AwaitResponse"
    /\ \A ch \in EmittedPeerConnected : actors[ch].pc = "Steady"

---------------------------------------------------------------------------
(* SpecFailure: two peers connect, and their established connections carry
   frames that end a task, frames the codec rejects, gossip and stream ends. *)
UnusedFrame == [type |-> "Unused"]
PingFrame(version) == [type |-> "Ping", version |-> version]
FailureFrames ==
    {UnusedFrame, PingFrame(MESSAGE_VERSION - 1),
     ChallengeRequestFrame(MESSAGE_VERSION, 1, 1), ChallengeResponseFrame(GenesisHash)}

InboundError ==
    \E ch \in ActorIds :
      /\ actors[ch].pc = "Steady"
      /\ Commit(inbound_error(World, ch), "InboundError", ch)

(* A peer holds one connection to the node at a time. *)
PeerDialsAlone(socks) ==
    \E sock \in socks :
      /\ \A ch \in ActorIds :
            actors[ch].pc = "Idle" \/ Ip(actors[ch].peer_ip) # Ip(sock)
      /\ EnvPeerConnecting({sock})

(* Frames from the peers at `ips`. *)
InboundFrom(ips, frames) ==
    \E ch \in ActorIds, frame \in frames :
      /\ actors[ch].pc = "Steady"
      /\ Ip(actors[ch].peer_ip) \in ips
      /\ Commit(inbound(World, ch, frame), "Inbound", ch)

InitFailure == PeerInit({2}, {1}) /\ LedgerInit /\ RpcInit /\ NoRemote

NextFailure ==
    \/ RouterRecv
    \/ PeerDialsAlone({OrdSock, OrdSock2})
    \/ EnvPeerDisconnected({OrdAddr, OrdAddr2})
    \/ HandshakeRequest({ChallengeRequestFrame(MESSAGE_VERSION, 1, 1),
                         ChallengeRequestFrame(MESSAGE_VERSION, 1, 2)})
    \/ HandshakeResponse({ChallengeResponseFrame(GenesisHash)})
    \/ Register
    \/ InboundFrom({Ip(OrdAddr)}, FailureFrames \cup NextBlocks)
    \/ InboundError
    \/ InboundEof

SpecFailure == InitFailure /\ [][NextFailure]_vars

(* The task of `ch` has left its loop and routed Disconnect(peer) to the ledger. *)
LeftLoop(w2, ch) ==
    /\ w2.actors[ch].pc = "Done"
    /\ w2.ledger # <<>>
    /\ w2.ledger[Len(w2.ledger)] = [type |-> "Disconnect", peer_ip |-> actors[ch].peer_ip]

(* C18 as stated: on an established connection, an error read from the socket
   and an Unused message each make the task leave its loop and end, and a
   disconnect for the peer is raised after it. *)
ReadFailureEndsTask ==
    \A ch \in ActorIds :
       actors[ch].pc = "Steady" =>
          /\ LeftLoop(inbound_error(World, ch), ch)
          /\ LeftLoop(inbound(World, ch, UnusedFrame), ch)

(* What a transport or protocol error makes of the task of `ch`: an outdated
   Ping, a ChallengeRequest or ChallengeResponse after the handshake, an
   unknown message, the end of the stream. *)
ConnectionFailures(ch) ==
    {inbound(World, ch, frame) : frame \in FailureFrames} \cup {inbound_eof(World, ch)}

RestrictedRequests(queue) ==
    {i \in DOMAIN queue : queue[i].type = "PeerRestricted"}

(* C19: a transport or protocol error on an established connection ends the
   task of that connection only: the other tasks, connected_peers and
   restricted_peers are as before and no PeerRestricted is sent; the
   PeerDisconnected for the address removes its entry of connected_peers
   only, leaves restricted_peers alone and makes the address a candidate; a
   task sends PeerRestricted only for gossip at or above the flood limit. *)
FailureEndsOneConnection ==
    /\ \A ch \in ActorIds :
          actors[ch].pc = "Steady" =>
             \A w2 \in ConnectionFailures(ch) :
                /\ LeftLoop(w2, ch)
                /\ \A c \in ActorIds \ {ch} : w2.actors[c] = actors[c]
                /\ w2.outbound = outbound
                /\ w2.connected_peers = connected_peers
                /\ w2.candidate_peers = candidate_peers
                /\ w2.restricted_peers = restricted_peers
                /\ w2.peers_router = peers_router
                /\ ~w2.blocked
    /\ \A peer_ip \in {OrdAddr, OrdAddr2} :
          LET w2 == update(World, [type |-> "PeerDisconnected", peer_ip |-> peer_ip], NoChoice)
          IN /\ peer_ip \in w2.candidate_peers
             /\ peer_ip \notin DOMAIN w2.connected_peers
             /\ \A other \in DOMAIN connected_peers \ {peer_ip} :
                   /\ other \in DOMAIN w2.connected_peers
                   /\ w2.connected_peers[other] = connected_peers[other]
             /\ w2.restricted_peers = restricted_peers
    /\ \A ch \in ActorIds :
          actors[ch].pc = "Steady" =>
             /\ \A i \in 1..MaxBlocks :
                   LET w2 == inbound(World, ch, BlockOf(i))
                   IN RestrictedRequests(w2.peers_router) # RestrictedRequests(peers_router)
                         => frequency(actors[ch].seen_inbound_blocks) >= BLOCK_FLOOD_LIMIT
             /\ \A frame \in SteadyFrames \cup {PingFrame(MESSAGE_VERSION), [type |-> "Pong"]} :
                   LET w2 == inbound(World, ch, frame)
                   IN RestrictedRequests(w2.peers_router) = RestrictedRequests(peers_router)
             /\ RestrictedRequests(inbound_error(World, ch).peers_router)
                   = RestrictedRequests(peers_router)

(* A task has ended on an error beside a live connection: its address is
   still registered, not restricted, and no request is pending. *)
FailedBesideLivePeer ==
    \E ch, c \in ActorIds :
       /\ actors[ch].pc = "Done"
       /\ actors[ch].peer_ip = OrdAddr
       /\ OrdAddr \in DOMAIN connected_peers
       /\ OrdAddr \notin DOMAIN restricted_peers
       /\ peers_router = <<>>
       /\ actors[c].pc = "Steady"
       /\ actors[c].peer_ip = OrdAddr2
       /\ OrdAddr2 \in DOMAIN connected_peers

---------------------------------------------------------------------------
(* SpecDial: the node is asked to connect to a peer and to itself, while
   connections come and go and a peer is reported for flooding; the history
   keeps the last dial to each address. *)
DialKey(peer_ip) == <<peer_ip, "Dial", 0>>

NextDialed(w2) ==
    LET new == {DialKey(peer_ip) : peer_ip \in w2.dialed}
    IN [k \in DOMAIN placed \cup new |->
          IF k \in new
          THEN [t |-> now, disconnected |-> FALSE,
                repeat |-> IF k \in DOMAIN placed /\ now - placed[k].t < RADIO_SILENCE_IN_SECS
                           THEN "kept" ELSE "none",
                after |-> IF k \in DOMAIN placed THEN placed[k].t ELSE UNIX_EPOCH]
          ELSE placed[k]]

DialAddrs == {OrdAddr, local_ip}

Dial(addrs) ==
    \E peer_ip \in addrs, dial \in DialOutcomes :
      CommitPlaced(update(World, [type |-> "Connect", peer_ip |-> peer_ip],
                          [NoChoice EXCEPT !.dial = dial]),
                   "Connect", LAMBDA w2 : NextDialed(w2))

InitDial == PeerInit({1, 2}, {2}) /\ LedgerInit /\ RpcInit /\ NoRemote

NextDial ==
    \/ Tick(MaxTime)
    \/ RouterRecv
    \/ Dial(DialAddrs)
    \/ EnvPeerRestricted({OrdAddr})
    \/ EnvPeerDisconnected({OrdAddr})
    \/ HandshakeRequest({ChallengeRequestFrame(MESSAGE_VERSION, 1, 1)})
    \/ HandshakeResponse({ChallengeResponseFrame(GenesisHash)})
    \/ Register
    \/ InboundEof

SpecDial == InitDial /\ [][NextDial]_vars

(* The five conditions of the claim, read off the state. *)
MayDial(peer_ip) ==
    /\ peer_ip # local_ip
    /\ peer_ip \notin DOMAIN connected_peers
    /\ \/ peer_ip \notin DOMAIN restricted_peers
       \/ now - restricted_peers[peer_ip] >= RADIO_SILENCE_IN_SECS
    /\ Cardinality(DOMAIN connected_peers) < MAXIMUM_NUMBER_OF_PEERS
    /\ \/ peer_ip \notin DOMAIN seen_outbound_connections
       \/ now - seen_outbound_connections[peer_ip] >= RADIO_SILENCE_IN_SECS

(* C20: Connect(addr) calls TcpStream::connect, and starts a task, only if
   addr is not the local address, not connected, not restricted, the node is
   below MAXIMUM_NUMBER_OF_PEERS and the last dial to addr is at least
   RADIO_SILENCE_IN_SECS old; whenever it dials it has set the last-dial time
   to now; no address is dialed twice within RADIO_SILENCE_IN_SECS; and a
   Connect that does not dial leaves connected_peers, candidate_peers and
   restricted_peers as they are. *)
ConnectDialsUnderGuard ==
    /\ \A peer_ip \in DialAddrs, dial \in DialOutcomes :
          LET w2 == Connect(World, peer_ip, dial)
          IN /\ w2.dialed \subseteq {peer_ip}
             /\ StartsActor(w2) => w2.dialed # {}
             /\ w2.dialed # {} =>
                   /\ MayDial(peer_ip)
                   /\ w2.seen_outbound_connections[peer_ip] = now
             /\ w2.dialed = {} =>
                   /\ w2.connected_peers = connected_peers
                   /\ w2.candidate_peers = candidate_peers
                   /\ w2.restricted_peers = restricted_peers
    /\ \A peer_ip \in DialAddrs :
          DialKey(peer_ip) \in DOMAIN placed => placed[DialKey(peer_ip)].repeat = "none"

(* The node has dialed the peer a second time, a whole window after the
   first, and a Connect in between was turned down. *)
DialedAgainAfterSilence ==
    /\ DialKey(OrdAddr) \in DOMAIN placed
    /\ placed[DialKey(OrdAddr)].after >= 0
    /\ placed[DialKey(OrdAddr)].t - placed[DialKey(OrdAddr)].after >= RADIO_SILENCE_IN_SECS

---------------------------------------------------------------------------
(* SpecInbound: a remote peer connects from two source ports and a loopback
   peer from one; every handshake fails on the version, so that the attempts
   add up. *)
HighSock == <<4, 3>>
LoopSock == <<1, 2>>
InboundSocks == {OrdSock, HighSock, LoopSock}

InitInbound == PeerInit({2}, {1}) /\ LedgerInit /\ RpcInit /\ NoRemote

NextInbound ==
    \/ Tick(MaxTime)
    \/ EnvPeerConnecting(InboundSocks)
    \/ HandshakeRequest({ChallengeRequestFrame(MESSAGE_VERSION - 1, 1, 1)})

SpecInbound == InitInbound /\ [][NextInbound]_vars

LookupKey(peer_ip) == IF Ip(peer_ip) = 1 THEN peer_ip ELSE <<Ip(peer_ip), 65535>>

(* C21: a PeerConnecting that passes the four admission tests reads the
   tracker entry of its lookup key ((ip, 65535), or the address itself for
   loopback); the entry starts afresh (source port, 0 attempts, now) when it
   is missing or more than RADIO_SILENCE_IN_SECS old; the connection is
   dropped, with no task and no increment, iff initial_port < source port and
   attempts > MAXIMUM_CONNECTION_FAILURES; otherwise attempts grows by one
   and a task is started. *)
InboundAttemptsTracked ==
    \A peer_ip \in InboundSocks :
       LET key == LookupKey(peer_ip)
           had == key \in DOMAIN seen_inbound_connections
           expired == IF had
                      THEN now - seen_inbound_connections[key].last_seen > RADIO_SILENCE_IN_SECS
                      ELSE TRUE
           initial == IF expired THEN Port(peer_ip)
                      ELSE seen_inbound_connections[key].initial_port
           attempts == IF expired THEN 0 ELSE seen_inbound_connections[key].num_attempts
           seen == IF expired THEN now ELSE seen_inbound_connections[key].last_seen
           dropped == initial < Port(peer_ip) /\ attempts > MAXIMUM_CONNECTION_FAILURES
           w2 == PeerConnecting(World, peer_ip)
       IN (/\ peer_ip # local_ip
           /\ Cardinality(DOMAIN connected_peers) < MAXIMUM_NUMBER_OF_PEERS
           /\ peer_ip \notin DOMAIN connected_peers
           /\ peer_ip \notin DOMAIN restricted_peers
           /\ ~w2.blocked) =>
             /\ key \in DOMAIN w2.seen_inbound_connections
             /\ DOMAIN w2.seen_inbound_connections = DOMAIN seen_inbound_connections \cup {key}
             /\ w2.seen_inbound_connections[key].initial_port = initial
             /\ w2.seen_inbound_connections[key].last_seen = seen
             /\ dropped =>
                   /\ w2.seen_inbound_connections[key].num_attempts = attempts
                   /\ w2.actors = actors
             /\ ~dropped =>
                   /\ w2.seen_inbound_connections[key].num_attempts = attempts + 1
                   /\ StartsActor(w2)

(* The remote peer is past the limit with a low initial port: its next
   attempt from the higher port is dropped, one from the same port is not. *)
TrackerPastLimit ==
    /\ LookupKey(OrdSock) \in DOMAIN seen_inbound_connections
    /\ seen_inbound_connections[LookupKey(OrdSock)].num_attempts > MAXIMUM_CONNECTION_FAILURES
    /\ seen_inbound_connections[LookupKey(OrdSock)].initial_port = Port(OrdSock)
    /\ \E ch \in ActorIds : actors[ch].pc = "Idle"
    /\ PeerConnecting(World, HighSock).actors = actors
    /\ StartsActor(PeerConnecting(World, OrdSock))

---------------------------------------------------------------------------
(* SpecSend: two peers connect and their streams may end; the ledger asks the
   manager to send to the first peer and to a stranger, and to propagate
   messages of its own and of the first peer, gossip and other messages. *)
SendPeers == {OrdAddr, OrdAddr2, SyncAddr}
SendMessages == {Block1, [type |-> "PeerRequest"]}

InitSend == PeerInit({2}, {1}) /\ LedgerInit /\ RpcInit /\ NoRemote

NextSend ==
    \/ RouterRecv
    \/ PeerDialsAlone({OrdSock, OrdSock2})
    \/ HandshakeRequest({ChallengeRequestFrame(MESSAGE_VERSION, 1, 1),
                         ChallengeRequestFrame(MESSAGE_VERSION, 1, 2)})
    \/ HandshakeResponse({ChallengeResponseFrame(GenesisHash)})
    \/ Register
    \/ InboundEof
    \/ OutboundRecv
    \/ EnvMessageSend({OrdAddr, SyncAddr}, SendMessages)
    \/ EnvMessagePropagate({OrdAddr, local_ip}, SendMessages)

SpecSend == InitSend /\ [][NextSend]_vars

(* The send is attempted: the message is no gossip, or its item was not
   placed for this peer within RADIO_SILENCE_IN_SECS. *)
Attempted(peer, message) ==
    \/ ~IsGossip(message)
    \/ peer \notin DOMAIN seen_outbound_blocks
    \/ GossipItem(message) \notin DOMAIN seen_outbound_blocks[peer]
    \/ now - seen_outbound_blocks[peer][GossipItem(message)] > RADIO_SILENCE_IN_SECS

(* C22: a MessageSend to an address that is not connected changes nothing; a
   MessageSend whose send finds the peer's channel closed removes that
   address from connected_peers, leaves every other entry as it is and
   places nothing on any channel. *)
SendToClosedChannel ==
    \A peer \in SendPeers, message \in SendMessages :
       LET w2 == MessageSend(World, peer, message)
       IN /\ peer \notin DOMAIN connected_peers => w2 = World
          /\ (/\ peer \in DOMAIN connected_peers
              /\ ChannelClosed(World, connected_peers[peer].chan)
              /\ Attempted(peer, message)) =>
                /\ DOMAIN w2.connected_peers = DOMAIN connected_peers \ {peer}
                /\ \A other \in DOMAIN w2.connected_peers :
                      w2.connected_peers[other] = connected_peers[other]
                /\ w2.outbound = outbound
                /\ w2.candidate_peers = candidate_peers
                /\ w2.restricted_peers = restricted_peers

(* The stream of one peer has ended while both are registered: a send to it
   will find its channel closed. *)
ClosedBesideOpen ==
    /\ OrdAddr \in DOMAIN connected_peers
    /\ OrdAddr2 \in DOMAIN connected_peers
    /\ ChannelClosed(World, connected_peers[OrdAddr].chan)
    /\ ~ChannelClosed(World, connected_peers[OrdAddr2].chan)
    /\ Attempted(OrdAddr, Block1)

SeenBy(w, peer) == MapGet(w.seen_outbound_blocks, peer, EmptyMap)

(* C23: MessagePropagate(sender, message) does to every peer that is
   connected and is not the sender what MessageSend(peer, message) does to
   it: its channel, its entry of connected_peers and its seen items end up
   the same; the sender's channel, entry and seen items are untouched, and so
   is everything kept for addresses that are not connected. *)
PropagateSparesSender ==
    \A sender \in {OrdAddr, local_ip}, message \in SendMessages :
       LET w2 == MessagePropagate(World, sender, message)
       IN ~w2.blocked =>
            /\ \A peer \in DOMAIN connected_peers :
                  LET ch == connected_peers[peer].chan
                      w1 == IF peer = sender THEN World ELSE MessageSend(World, peer, message)
                  IN /\ w2.outbound[ch] = w1.outbound[ch]
                     /\ (peer \in DOMAIN w2.connected_peers) = (peer \in DOMAIN w1.connected_peers)
                     /\ peer \in DOMAIN w2.connected_peers =>
                           w2.connected_peers[peer] = connected_peers[peer]
                     /\ SeenBy(w2, peer) = SeenBy(w1, peer)
            /\ DOMAIN w2.connected_peers \subseteq DOMAIN connected_peers
            /\ \A peer \in (DOMAIN w2.seen_outbound_blocks \cup DOMAIN seen_outbound_blocks)
                              \ DOMAIN connected_peers :
                  SeenBy(w2, peer) = SeenBy(World, peer)
            /\ \A ch \in ActorIds :
                  (\A peer \in DOMAIN connected_peers : connected_peers[peer].chan # ch)
                     => w2.outbound[ch] = outbound[ch]

(* A block of the first peer has been propagated: it is on the second peer's
   channel and recorded for it, and neither on the first peer's channel nor
   recorded for the first peer. *)
PropagatedPastSender ==
    /\ OrdAddr \in DOMAIN connected_peers
    /\ OrdAddr2 \in DOMAIN connected_peers
    /\ Block1 \in Range(outbound[connected_peers[OrdAddr2].chan])
    /\ outbound[connected_peers[OrdAddr].chan] = <<>>
    /\ Block1.hash \in DOMAIN SeenBy(World, OrdAddr2)
    /\ Block1.hash \notin DOMAIN SeenBy(World, OrdAddr)

---------------------------------------------------------------------------
(* SpecCandidates: a peer connects, answers PeerRequest with lists of
   addresses, and disconnects. *)
LoopSelf == <<1, Port(local_ip)>>
ListedAddrs == {local_ip, LoopSelf, OrdAddr, OrdAddr2, SyncAddr, PeerAddr}
MaxListed == 3
Lists == UNION {[1..n -> ListedAddrs] : n \in 0..MaxListed}
PeerResponseFrame(peer_ips) == [type |-> "PeerResponse", peer_ips |-> peer_ips]
ResponseLists ==
    {<<local_ip, OrdAddr, SyncAddr>>, <<PeerAddr>>, <<OrdAddr2, OrdAddr2>>, <<LoopSelf, PeerAddr>>}

InitCandidates == PeerInit({2}, {1}) /\ LedgerInit /\ RpcInit /\ NoRemote

NextCandidates ==
    \/ RouterRecv
    \/ PeerDialsAlone({OrdSock})
    \/ EnvPeerDisconnected({OrdAddr})
    \/ HandshakeRequest({ChallengeRequestFrame(MESSAGE_VERSION, 1, 1)})
    \/ HandshakeResponse({ChallengeResponseFrame(GenesisHash)})
    \/ Register
    \/ Inbound({PeerResponseFrame(peer_ips) : peer_ips \in ResponseLists})
    \/ InboundEof

SpecCandidates == InitCandidates /\ [][NextCandidates]_vars

(* The node itself: its address, or an unspecified or loopback ip with its port. *)
IsLocal(peer_ip) ==
    \/ peer_ip = local_ip
    \/ Ip(peer_ip) \in {0, 1} /\ Port(peer_ip) = Port(local_ip)

(* C24: ReceivePeerResponse(addrs) adds nothing if |candidate_peers| +
   |addrs| is not below MAXIMUM_CANDIDATE_PEERS; otherwise candidate_peers
   grows by exactly the addresses of addrs that are not the node itself and
   not connected; nothing else of the manager changes. *)
PeerResponseAllOrNothing ==
    \A peer_ips \in Lists :
       LET w2 == ReceivePeerResponse(World, peer_ips)
           listed == {peer_ips[i] : i \in DOMAIN peer_ips}
       IN /\ w2 = [World EXCEPT !.candidate_peers = w2.candidate_peers]
          /\ w2.candidate_peers =
                IF Cardinality(candidate_peers) + Len(peer_ips) < MAXIMUM_CANDIDATE_PEERS
                THEN candidate_peers \cup
                        {peer_ip \in listed : ~IsLocal(peer_ip)
                                                /\ peer_ip \notin DOMAIN connected_peers}
                ELSE candidate_peers

(* A list was turned down as a whole although one of its addresses alone
   would have fitted: the candidates are short of the threshold and a
   response of three addresses is the next request. *)
ListTurnedDown ==
    /\ peers_router # <<>>
    /\ Head(peers_router).type = "ReceivePeerResponse"
    /\ Len(Head(peers_router).peer_ips) = 3
    /\ Cardinality(candidate_peers) = 2
    /\ connected_peers # EmptyMap

---------------------------------------------------------------------------
(* The peers on whose channel the step has placed a Disconnect. *)
SentDisconnect(w2) ==
    {peer \in DOMAIN connected_peers :
       [type |-> "Disconnect"] \in Range(Appended(w2, connected_peers[peer].chan))}

(* C25: a Heartbeat taken with more than MAXIMUM_NUMBER_OF_PEERS connected
   peers places a Disconnect on the channels of at most |connected_peers| -
   MAXIMUM_NUMBER_OF_PEERS peers, none of them in SYNC_NODES or PEER_NODES; a
   Heartbeat taken with at most MAXIMUM_NUMBER_OF_PEERS places none. *)
HeartbeatDisconnectsExcess ==
    \A r \in HeartbeatResults :
       LET sent == SentDisconnect(r.w)
       IN /\ sent \subseteq r.to_disconnect
          /\ sent \cap (SYNC_NODES \cup PEER_NODES) = {}
          /\ IF Cardinality(DOMAIN connected_peers) > MAXIMUM_NUMBER_OF_PEERS
             THEN Cardinality(sent)
                     <= Cardinality(DOMAIN connected_peers) - MAXIMUM_NUMBER_OF_PEERS
             ELSE sent = {}

(* The node is over its budget with a sync node among its peers, and a
   Heartbeat has asked a peer outside the lists to leave. *)
ExcessPeerAskedToLeave ==
    /\ Cardinality(DOMAIN connected_peers) > MAXIMUM_NUMBER_OF_PEERS
    /\ SyncAddr \in DOMAIN connected_peers
    /\ outbound[connected_peers[SyncAddr].chan] = <<>>
    /\ \E peer \in DOMAIN connected_peers \ (SYNC_NODES \cup PEER_NODES) :
          [type |-> "Disconnect"] \in Range(outbound[connected_peers[peer].chan])

---------------------------------------------------------------------------
(* SpecHeartbeat: a node that wants two peers and admits two; a peer
   connects to it, the node dials the candidates its Heartbeats pick, and
   connections end. *)

InitHeartbeat ==
    PeerInitOf([MAXIMUM_NUMBER_OF_PEERS : {2}, RADIO_SILENCE_IN_SECS : {1},
                MINIMUM_NUMBER_OF_PEERS : {2}, ROUTER_CAPACITY : {MaxRouter + 1}])
      /\ LedgerInit /\ RpcInit /\ NoRemote

NextHeartbeat ==
    \/ RouterRecv
    \/ EnvHeartbeat
    \/ PeerDialsAlone({OrdSock})
    \/ EnvPeerDisconnected({OrdAddr, SyncAddr})
    \/ HandshakeRequest({ChallengeRequestFrame(MESSAGE_VERSION, 1, 1),
                         ChallengeRequestFrame(MESSAGE_VERSION, 1, 2)})
    \/ HandshakeResponse({ChallengeResponseFrame(GenesisHash)})
    \/ Register
    \/ InboundEof
    \/ OutboundRecv

SpecHeartbeat == InitHeartbeat /\ [][NextHeartbeat]_vars

(* add_candidate_peers, as C24 states it. *)
WithCandidates(candidates, peer_ips) ==
    IF Cardinality(candidates) + Len(peer_ips) < MAXIMUM_CANDIDATE_PEERS
    THEN candidates \cup {peer_ips[i] : i \in {i \in DOMAIN peer_ips :
                                               /\ ~IsLocal(peer_ips[i])
                                               /\ peer_ips[i] \notin DOMAIN connected_peers}}
    ELSE candidates

(* What a Heartbeat has added to the manager's queue. *)
Requested(w2) ==
    SubSeq(w2.peers_router, Len(peers_router) + 1, Len(w2.peers_router))

(* The Connect requests and the PeerRequest messages of a Heartbeat taken
   below MINIMUM_NUMBER_OF_PEERS, and their absence at or above it. *)
HeartbeatRequests(w2) ==
    IF Cardinality(DOMAIN connected_peers) < MINIMUM_NUMBER_OF_PEERS
    THEN /\ Len(Requested(w2)) <= MINIMUM_NUMBER_OF_PEERS
         /\ \A i \in DOMAIN Requested(w2) :
               /\ Requested(w2)[i].type = "Connect"
               /\ Requested(w2)[i].peer_ip \in w2.candidate_peers
               /\ Requested(w2)[i].peer_ip \notin DOMAIN connected_peers
         /\ \A i, j \in DOMAIN Requested(w2) :
               Requested(w2)[i].peer_ip = Requested(w2)[j].peer_ip => i = j
         /\ \A peer \in DOMAIN connected_peers :
               IF ChannelClosed(World, connected_peers[peer].chan)
               THEN peer \notin DOMAIN w2.connected_peers
               ELSE Appended(w2, connected_peers[peer].chan) = <<[type |-> "PeerRequest"]>>
    ELSE /\ w2.peers_router = peers_router
         /\ w2.candidate_peers = candidate_peers
         /\ \A ch \in ActorIds :
               [type |-> "PeerRequest"] \notin Range(Appended(w2, ch))

(* C26 as stated: a Heartbeat taken with fewer than MINIMUM_NUMBER_OF_PEERS
   connected peers leaves SYNC_NODES (the node is no sync node) and
   PEER_NODES among the candidates, enqueues Connect requests for at most
   MINIMUM_NUMBER_OF_PEERS candidates that are not connected and sends
   PeerRequest to every connected peer; at or above MINIMUM_NUMBER_OF_PEERS
   it enqueues nothing, sends no PeerRequest and leaves candidate_peers. *)
HeartbeatAddsListedNodes ==
    \A r \in HeartbeatResults :
       /\ HeartbeatRequests(r.w)
       /\ Cardinality(DOMAIN connected_peers) < MINIMUM_NUMBER_OF_PEERS =>
             /\ candidate_peers \subseteq r.w.candidate_peers
             /\ (SYNC_NODES \cup PEER_NODES) \subseteq r.w.candidate_peers

(* C26, amended: below MINIMUM_NUMBER_OF_PEERS the Heartbeat offers
   SYNC_NODES and then PEER_NODES to the candidates by the rule of
   ReceivePeerResponse: a list is added only if it keeps the candidates below
   MAXIMUM_CANDIDATE_PEERS, and of it only the addresses that are not the
   node and not connected; the rest is as stated. *)
HeartbeatOffersListedNodes ==
    \A r \in HeartbeatResults :
       /\ HeartbeatRequests(r.w)
       /\ Cardinality(DOMAIN connected_peers) < MINIMUM_NUMBER_OF_PEERS =>
             r.w.candidate_peers =
                WithCandidates(WithCandidates(candidate_peers, <<SyncAddr>>), <<PeerAddr>>)

(* The sync node is connected, the node wants a second peer, and a Heartbeat
   has asked the sync node for peers and the manager to dial the peer node:
   the sync node has not become a candidate. *)
HeartbeatAskedSyncNode ==
    /\ MINIMUM_NUMBER_OF_PEERS = 2
    /\ DOMAIN connected_peers = {SyncAddr}
    /\ outbound[connected_peers[SyncAddr].chan] = <<[type |-> "PeerRequest"]>>
    /\ peers_router = <<[type |-> "Connect", peer_ip |-> PeerAddr]>>
    /\ SyncAddr \notin candidate_peers

---------------------------------------------------------------------------
(* SpecRoute: a peer connects and sends two blocks and a transaction, again
   and again, while time passes. *)
TransactionOf(i) == [type |-> "UnconfirmedTransaction", id |-> i]
RoutedItems == {BlockOf(1), BlockOf(2), TransactionOf(1)}

InitRoute == PeerInit({1}, {1}) /\ LedgerInit /\ RpcInit /\ NoRemote

NextRoute ==
    \/ Tick(MaxTime)
    \/ RouterRecv
    \/ PeerDials({OrdSock})
    \/ HandshakeRequest({ChallengeRequestFrame(MESSAGE_VERSION, 1, 1)})
    \/ HandshakeResponse({ChallengeResponseFrame(GenesisHash)})
    \/ Register
    \/ Inbound(RoutedItems)
    \/ InboundEof

SpecRoute == InitRoute /\ [][NextRoute]_vars

SeenInbound(a, message) ==
    IF message.type = "UnconfirmedBlock" THEN a.seen_inbound_blocks
    ELSE a.seen_inbound_transactions

FloodLimit(message) ==
    IF message.type = "UnconfirmedBlock" THEN BLOCK_FLOOD_LIMIT ELSE TRANSACTION_FLOOD_LIMIT

(* C27: a block or transaction that a task dispatches and that is below the
   flood limit is routed to the ledger iff the task has not received the same
   hash (id) before or received it more than RADIO_SILENCE_IN_SECS ago; routed
   or not, the item's time of reception becomes now and the task goes on. *)
ItemRoutedOncePerWindow ==
    \A ch \in ActorIds, message \in RoutedItems :
       LET a == actors[ch]
           seen == SeenInbound(a, message)
           item == GossipItem(message)
           w2 == inbound(World, ch, message)
           routed == [type |-> message.type, peer_ip |-> a.peer_ip, item |-> item]
       IN (/\ a.pc = "Steady"
           /\ now - a.last_seen <= RADIO_SILENCE_IN_SECS
           /\ Cardinality({i \in DOMAIN seen : now - seen[i] <= FLOOD_WINDOW_IN_SECS})
                 < FloodLimit(message)) =>
             /\ w2.ledger = IF item \notin DOMAIN seen
                               \/ now - seen[item] > RADIO_SILENCE_IN_SECS
                            THEN <<routed>> ELSE <<>>
             /\ SeenInbound(w2.actors[ch], message)
                   = [k \in DOMAIN seen \cup {item} |-> IF k = item THEN now ELSE seen[k]]
             /\ w2.actors[ch].pc = "Steady"
             /\ w2.peers_router = peers_router

(* The peer repeats a block within the window: the task has received block 1
   RADIO_SILENCE_IN_SECS ago, holds it back now, and will route it if it
   comes again after the window. *)
ItemHeldBack ==
    \E ch \in ActorIds :
       /\ actors[ch].pc = "Steady"
       /\ actors[ch].last_seen = now
       /\ 1 \in DOMAIN actors[ch].seen_inbound_blocks
       /\ now - actors[ch].seen_inbound_blocks[1] = RADIO_SILENCE_IN_SECS
       /\ 1 \in DOMAIN actors[ch].seen_inbound_transactions
       /\ inbound(World, ch, BlockOf(1)).ledger = <<>>

(* One frame of every variant a peer can send in the steady state. *)
EveryVariant ==
    FailureFrames \cup RoutedItems
       \cup {PingFrame(MESSAGE_VERSION), [type |-> "Pong"], [type |-> "BlockRequest"],
             [type |-> "BlockResponse"], [type |-> "Disconnect"], [type |-> "PeerRequest"],
             PeerResponseFrame(<<OrdAddr2>>)}

(* C28 as stated: whatever frame a task in the steady state reads from its
   socket, and however long after the previous one, the task sets last_seen
   to now and dispatches the frame: a Pong reaches the ledger and the task
   goes on. *)
InboundAlwaysRefreshes ==
    \A ch \in ActorIds :
       actors[ch].pc = "Steady" =>
          /\ \A frame \in EveryVariant :
                inbound(World, ch, frame).actors[ch].last_seen = now
          /\ LET w2 == inbound(World, ch, [type |-> "Pong"])
             IN /\ w2.actors[ch].pc = "Steady"
                /\ w2.ledger = <<[type |-> "Pong", peer_ip |-> actors[ch].peer_ip]>>

---------------------------------------------------------------------------
(* Every step a task in the steady state can take: a frame of any variant, a
   read error, the end of the stream, a message from its channel. *)
SteadySteps(ch) ==
    {inbound(World, ch, frame) : frame \in EveryVariant \cup {BlockOf(i) : i \in 1..MaxBlocks}}
       \cup {inbound_error(World, ch), inbound_eof(World, ch),
             outbound_recv([World EXCEPT !.outbound[ch] = <<[type |-> "PeerRequest"]>>], ch)}

(* C29: whatever step takes a task out of the steady state, the task ends,
   and the last thing it has done is to route Disconnect(peer) to the ledger. *)
LeavingRoutesDisconnect ==
    \A ch \in ActorIds :
       actors[ch].pc = "Steady" =>
          \A w2 \in SteadySteps(ch) :
             w2.actors[ch].pc # "Steady" =>
                /\ w2.actors[ch].pc = "Done"
                /\ w2.ledger # <<>>
                /\ w2.ledger[Len(w2.ledger)]
                      = [type |-> "Disconnect", peer_ip |-> actors[ch].peer_ip]

(* A peer within its silence window has reached the flood limit: its next
   block takes the task out of the steady state, with PeerRestricted routed to
   the manager and Disconnect routed to the ledger. *)
FloodedTaskLeaves ==
    \E ch \in ActorIds :
       /\ actors[ch].pc = "Steady"
       /\ now - actors[ch].last_seen <= RADIO_SILENCE_IN_SECS
       /\ frequency(actors[ch].seen_inbound_blocks) >= BLOCK_FLOOD_LIMIT
       /\ LET w2 == inbound(World, ch, BlockOf(MaxBlocks))
          IN /\ w2.actors[ch].pc = "Done"
             /\ w2.ledger = <<[type |-> "Disconnect", peer_ip |-> actors[ch].peer_ip]>>

---------------------------------------------------------------------------
(* The requests a world's manager queue holds that register the given peer. *)
Registrations(w, peer_ip) ==
    {i \in DOMAIN w.peers_router :
        /\ w.peers_router[i].type = "PeerConnected"
        /\ w.peers_router[i].peer_ip = peer_ip}

(* C30 as stated: when a task asks the ledger for the initial Ping of its
   peer, its PeerConnected is already with the manager (queued or handled),
   so that a Ping the ledger sends from then on finds the peer connected. *)
RegisteredBeforePing ==
    \A ch \in ActorIds, frame \in {ChallengeResponseFrame(GenesisHash)} :
       actors[ch].pc = "AwaitResponse" =>
          LET peer_ip == actors[ch].peer_ip
              w2 == handshake_response(World, ch, frame)
          IN [type |-> "SendPing", peer_ip |-> peer_ip] \in Range(w2.ledger) =>
                \/ Registrations(w2, peer_ip) # {}
                \/ /\ is_connected_to(w2, peer_ip)
                   /\ w2.connected_peers[peer_ip].chan = ch

---------------------------------------------------------------------------
(* C31 as stated: no two entries of connected_peers carry the same peer
   nonce, also when the handshakes that led to them were in flight together. *)
ConnectedNoncesDistinct ==
    \A p, q \in DOMAIN connected_peers :
       p # q => connected_peers[p].nonce # connected_peers[q].nonce

(* C32 as stated: connected_peers never holds more than
   MAXIMUM_NUMBER_OF_PEERS addresses, whatever the interleaving of the
   handshakes that Connect and PeerConnecting admitted. *)
ConnectedWithinBudget ==
    Cardinality(DOMAIN connected_peers) <= MAXIMUM_NUMBER_OF_PEERS

---------------------------------------------------------------------------
(* SpecReplace: one remote host dials in from two source ports and advertises
   the same listener port on both connections, with a nonce of its choice. *)
InitReplace == PeerInit({2}, {1}) /\ LedgerInit /\ RpcInit /\ NoRemote

NextReplace ==
    \/ RouterRecv
    \/ EnvPeerConnecting({OrdSock, HighSock})
    \/ HandshakeRequest({ChallengeRequestFrame(MESSAGE_VERSION, 1, n) : n \in {1, 2}})
    \/ HandshakeResponse({ChallengeResponseFrame(GenesisHash)})
    \/ Register
    \/ InboundEof

SpecReplace == InitReplace /\ [][NextReplace]_vars

(* The manager has handled the PeerConnected of task ch. *)
Registered(ch) ==
    /\ actors[ch].pc = "Steady"
    /\ \A i \in DOMAIN peers_router :
          ~(peers_router[i].type = "PeerConnected" /\ peers_router[i].chan = ch)

(* C33 as stated: while a task is in its loop and its PeerConnected has been
   handled, connected_peers maps the task's listener address to the task's
   own channel; no request of another connection with the same listener
   address replaces or removes the entry. *)
LiveTaskKeepsEntry ==
    \A ch \in ActorIds :
       Registered(ch) =>
          /\ is_connected_to(World, actors[ch].peer_ip)
          /\ connected_peers[actors[ch].peer_ip].chan = ch

---------------------------------------------------------------------------
(* The manager, handling a Heartbeat in the current state, has sent the
   Disconnects `to_disconnect` and now enqueues the Connect requests for
   `chosen` on its own queue. *)
HeartbeatEnqueues(to_disconnect, chosen) ==
    request_connects(HeartbeatCandidates(HeartbeatDisconnect(World, to_disconnect)), chosen)

(* The manager's Heartbeat never waits for room on the manager's own queue,
   which nobody but the manager empties. *)
HeartbeatEnqueueCompletes ==
    \A to_disconnect \in DisconnectChoices(World) :
       LET w1 == HeartbeatDisconnect(World, to_disconnect)
       IN (~w1.blocked /\ num_connected_peers(w1) < MINIMUM_NUMBER_OF_PEERS) =>
             \A chosen \in ConnectChoices(HeartbeatCandidates(w1)) :
                ~HeartbeatEnqueues(to_disconnect, chosen).blocked

(* The manager's send to a peer never waits for room on the peer's channel
   while the peer's task waits for room on the manager's queue. *)
OutboundSendCompletes ==
    \A peer \in DOMAIN connected_peers :
       LET ch == connected_peers[peer].chan
       IN (actors[ch].pc = "Steady" /\ inbound(World, ch, [type |-> "PeerRequest"]).blocked)
             => ~send(World, peer, [type |-> "Ping"]).blocked

(* C34 as stated: the manager never waits forever within one request. *)
ManagerNeverDeadlocks == HeartbeatEnqueueCompletes /\ OutboundSendCompletes

---------------------------------------------------------------------------
(* SpecDropped: SpecReplace with the manager sending to the peer and being
   told of its disconnection.  The node's own steps are taken whenever they
   stay possible; what the remote host does, and when, is up to it. *)
SenderDropped(ch) == actors[ch].pc = "Steady" /\ ~Referenced(World, ch)

OutboundClosed ==
    \E ch \in ActorIds :
      /\ SenderDropped(ch)
      /\ outbound[ch] = <<>>
      /\ Commit(outbound_closed(World, ch), "OutboundClosed", ch)

NextDropped ==
    \/ RouterRecv
    \/ EnvPeerConnecting({OrdSock, HighSock})
    \/ HandshakeRequest({ChallengeRequestFrame(MESSAGE_VERSION, 1, n) : n \in {1, 2}})
    \/ HandshakeResponse({ChallengeResponseFrame(GenesisHash)})
    \/ Register
    \/ InboundEof
    \/ EnvMessageSend({OrdAddr}, {[type |-> "Ping"]})
    \/ EnvPeerDisconnected({OrdAddr})
    \/ OutboundRecv
    \/ OutboundClosed

SpecDropped ==
    /\ InitReplace
    /\ [][NextDropped]_vars
    /\ WF_vars(RouterRecv) /\ WF_vars(Register) /\ WF_vars(OutboundRecv)
    /\ WF_vars(OutboundClosed)

(* C35 as stated: a task in its loop whose sender the manager has dropped
   eventually leaves the loop. *)
DroppedTaskTerminates ==
    \A ch \in ActorIds : SenderDropped(ch) ~> actors[ch].pc # "Steady"

---------------------------------------------------------------------------
(* The requests whose handling can take an address out of connected_peers. *)
LeaveRequests ==
    {[type |-> "PeerDisconnected", peer_ip |-> p] : p \in SendPeers}
       \cup {[type |-> "SendPeerResponse", peer_ip |-> p] : p \in SendPeers}
       \cup {[type |-> t, peer_ip |-> p, message |-> m] :
               t \in {"MessageSend", "MessagePropagate"}, p \in SendPeers \cup {local_ip},
               m \in SendMessages}
       \cup {[type |-> "Heartbeat"]}

(* C36 as stated: an address that leaves connected_peers while a request is
   handled is a candidate afterwards, and the manager keeps no outbound dedup
   table for it. *)
LeavingBecomesCandidate ==
    \A request \in LeaveRequests, to_disconnect \in DisconnectChoices(World) :
      \A chosen \in ConnectChoices(HeartbeatCandidates(HeartbeatDisconnect(World, to_disconnect))) :
       LET w2 == update(World, request, [NoChoice EXCEPT !.to_disconnect = to_disconnect,
                                                         !.chosen = chosen])
       IN \A p \in DOMAIN connected_peers \ DOMAIN w2.connected_peers :
             /\ p \in w2.candidate_peers
             /\ p \notin DOMAIN w2.seen_outbound_blocks
             /\ p \notin DOMAIN w2.seen_outbound_transactions

---------------------------------------------------------------------------
(* C37 as stated: candidate_peers always holds fewer than
   MAXIMUM_CANDIDATE_PEERS addresses. *)
CandidatesBelowMaximum ==
    Cardinality(candidate_peers) < MAXIMUM_CANDIDATE_PEERS

---------------------------------------------------------------------------
(* C38 as stated: once MAXIMUM_CONNECTION_FAILURES + 1 connections of a remote
   IP have been handed to a task within the current window of the tracker,
   a further connection from that IP is dropped, whatever its source port. *)
InboundLimitedPerWindow ==
    \A peer_ip \in {OrdSock, HighSock} :
       LET key == LookupKey(peer_ip)
       IN (/\ key \in DOMAIN seen_inbound_connections
           /\ now - seen_inbound_connections[key].last_seen <= RADIO_SILENCE_IN_SECS
           /\ seen_inbound_connections[key].num_attempts >= MAXIMUM_CONNECTION_FAILURES + 1)
          => LET w2 == PeerConnecting(World, peer_ip)
             IN ~w2.blocked => ~StartsActor(w2)

---------------------------------------------------------------------------
(* The items of a table that were last seen within the flood window. *)
RecentItemsOf(seen) == {h \in DOMAIN seen : now - seen[h] <= FLOOD_WINDOW_IN_SECS}

(* The task of ch has been ended for abuse in w2. *)
RestrictedFor(w2, ch) ==
    /\ w2.actors[ch].pc = "Done"
    /\ w2.peers_router
         = Append(peers_router, [type |-> "PeerRestricted", peer_ip |-> actors[ch].peer_ip])

(* Tables of transactions a peer can have sent: what the task holds, and
   tables with one item less than the limit and with as many as the limit,
   all just seen. *)
TransactionTables(ch) ==
    {actors[ch].seen_inbound_transactions}
       \cup {[i \in 1..n |-> now] :
               n \in {TRANSACTION_FLOOD_LIMIT - 1, TRANSACTION_FLOOD_LIMIT}}

(* C39: a block or transaction that reaches the dispatch restricts the peer
   exactly when the task's table holds at least 5 (blocks) resp. 500
   (transactions) distinct items last seen within 5 s; an item sent again
   takes the place of its earlier entry, so re-sending one item never adds to
   the count. *)
FloodCountsDistinctItems ==
    \A ch \in ActorIds :
       (actors[ch].pc = "Steady" /\ now - actors[ch].last_seen <= RADIO_SILENCE_IN_SECS) =>
          /\ \A i \in 1..MaxBlocks :
                LET seen == actors[ch].seen_inbound_blocks
                    w2 == inbound(World, ch, BlockOf(i))
                IN ~w2.blocked =>
                      /\ RestrictedFor(w2, ch)
                            <=> Cardinality(RecentItemsOf(seen)) >= BLOCK_FLOOD_LIMIT
                      /\ ~RestrictedFor(w2, ch) =>
                            /\ w2.actors[ch].pc = "Steady"
                            /\ DOMAIN w2.actors[ch].seen_inbound_blocks = DOMAIN seen \cup {i}
          /\ \A seen \in TransactionTables(ch), i \in {1, TRANSACTION_FLOOD_LIMIT + 1} :
                LET w2 == inbound([World EXCEPT !.actors[ch].seen_inbound_transactions = seen],
                                  ch, TransactionOf(i))
                IN ~w2.blocked =>
                      /\ RestrictedFor(w2, ch)
                            <=> Cardinality(RecentItemsOf(seen)) >= TRANSACTION_FLOOD_LIMIT
                      /\ ~RestrictedFor(w2, ch) =>
                            /\ w2.actors[ch].pc = "Steady"
                            /\ DOMAIN w2.actors[ch].seen_inbound_transactions
                                 = DOMAIN seen \cup {i}

(* A peer has five distinct blocks within the window, the first among them:
   sending the first again now restricts it; and a peer with one block in its
   table can send that block again without adding to the table. *)
FiveDistinctBlocksSeen ==
    \E ch \in ActorIds :
       /\ actors[ch].pc = "Steady"
       /\ now - actors[ch].last_seen <= RADIO_SILENCE_IN_SECS
       /\ Cardinality(RecentItemsOf(actors[ch].seen_inbound_blocks)) = BLOCK_FLOOD_LIMIT
       /\ 1 \in RecentItemsOf(actors[ch].seen_inbound_blocks)
       /\ RestrictedFor(inbound(World, ch, BlockOf(1)), ch)

---------------------------------------------------------------------------
(* The outcomes of a dial that yield no stream. *)
FailedDials == DialOutcomes \ {"ok"}

(* C40: a Connect(addr) that is admitted and whose dial fails or times out
   takes addr out of candidate_peers and nothing else, leaves connected_peers
   and restricted_peers as they are, starts no task and keeps the last-dial
   time it has set; and while the last dial to addr is less than
   RADIO_SILENCE_IN_SECS old, a further Connect(addr) neither dials nor
   starts a task. *)
FailedDialContract ==
    /\ \A peer_ip \in DialAddrs, dial \in FailedDials :
          LET w2 == Connect(World, peer_ip, dial)
          IN w2.dialed # {} =>
                /\ w2.candidate_peers = candidate_peers \ {peer_ip}
                /\ w2.connected_peers = connected_peers
                /\ w2.restricted_peers = restricted_peers
                /\ w2.actors = actors
                /\ w2.peers_router = peers_router
                /\ peer_ip \in DOMAIN w2.seen_outbound_connections
                /\ w2.seen_outbound_connections[peer_ip] = now
                /\ \A again \in DialOutcomes :
                      LET w3 == Connect([w2 EXCEPT !.dialed = {}], peer_ip, again)
                      IN w3.dialed = {} /\ w3.actors = actors
    /\ \A peer_ip \in DialAddrs, dial \in DialOutcomes :
          (/\ peer_ip \in DOMAIN seen_outbound_connections
           /\ now - seen_outbound_connections[peer_ip] < RADIO_SILENCE_IN_SECS)
          => LET w2 == Connect(World, peer_ip, dial)
             IN w2.dialed = {} /\ ~StartsActor(w2)

(* A candidate is dialed and the dial times out: the address is a candidate
   no more. *)
CandidateDialTimedOut ==
    /\ OrdAddr \in candidate_peers
    /\ LET w2 == Connect(World, OrdAddr, "timeout")
       IN /\ w2.dialed = {OrdAddr}
          /\ OrdAddr \notin w2.candidate_peers

====
